---- MODULE Spec2Model ----
(***************************************************************************)
(* Pathwell Connect: identity registry, proxy gateway and receipt store.   *)
(*                                                                         *)
(* Conventions.  An Option<T> is a sequence of length <= 1 (None == <<>>,  *)
(* Some(x) == <<x>>).  A relational table is the sequence of its rows in   *)
(* insertion order.  A format!() string is the sequence of its parts.      *)
(* Uuid::new_v4() is a fresh value <<"v4", n>>; a caller-supplied uuid is  *)
(* <<"req", n>>.  SHA-256 is an ideal hash: the tagged hash input.         *)
(***************************************************************************)
EXTENDS Integers, Sequences, FiniteSets, TLC

VARIABLES
    developers,   \* identity registry: table developers
    agents,       \* identity registry: table agents
    tenants,      \* identity registry: table tenants
    regResp,      \* identity registry: the response of the last handler run
    revokedOk,    \* agent ids for which revoke_agent has answered 204
    gw,           \* proxy gateway: the outcome of the last intercepted request
    db,           \* receipt store: the relational store
    db_pool,      \* receipt store: whether DATABASE_URL configured a pool
    clock,        \* receipt store: Utc::now() / NOW()
    uuids,        \* receipt store: number of Uuid::new_v4() values drawn
    rsResp,       \* receipt store: what the last store_receipt call did
    trust_scores,         \* identity registry: table trust_scores
    trust_score_history,  \* identity registry: table trust_score_history
    trustClock,   \* identity registry: Utc::now() of the trust handlers
    upd,          \* update_trust_dimension: the locals of each running call
    trustResp,    \* identity registry: the response of the last trust handler
    task,         \* receipt store: the locals of each running store_receipt call
    started,      \* receipt store: number of store_receipt calls begun as tasks
    kafka,        \* receipt store: the payloads sent to the Kafka topic
    s3,           \* receipt store: the objects of the archive bucket
    pe,           \* policy engine: the last evaluate call and its response
    external_events,  \* receipt store: table external_events
    timeline,     \* receipt store: the last get_timeline call and its response
    lookup,       \* receipt store: the last lookup_by_correlation call
    reg           \* register_developer: the locals of each running call

vars == <<developers, agents, tenants, regResp, revokedOk, gw, db, db_pool,
          clock, uuids, rsResp, trust_scores, trust_score_history, trustClock,
          upd, trustResp, task, started, kafka, s3, pe, external_events,
          timeline, lookup, reg>>

regVars == <<developers, agents, tenants, regResp, revokedOk>>
storeVars == <<db, db_pool, clock, uuids, rsResp>>
trustVars == <<trust_scores, trust_score_history, trustClock, upd, trustResp>>
taskVars == <<task, started, reg>>
sinkVars == <<kafka, s3>>
queryVars == <<external_events, timeline, lookup>>

-----------------------------------------------------------------------------
\* Option<T>
None == <<>>
Some(x) == <<x>>
IsSome(o) == Len(o) = 1
Unwrap(o) == o[1]

\* the rows of table t that satisfy P, as the set of their positions
Rows(t, P(_)) == {i \in 1..Len(t) : P(t[i])}

\* the n-th value of Uuid::new_v4() / a uuid supplied by a caller
new_v4(n) == <<"v4", n>>

\* a variant of starts_with that accepts the prefix at any position
starts_with_anywhere(s, p) ==
    \E k \in 0..(Len(s) - Len(p)) : SubSeq(s, k + 1, k + Len(p)) = p

\* str.starts_with(prefix), on strings given as character sequences
starts_with(s, p) == Len(s) >= Len(p) /\ SubSeq(s, 1, Len(p)) = p

-----------------------------------------------------------------------------
\* Bounds of the model: the external ids in use.  Requests may also name the
\* developer "dev2", which is never registered.
DevIds == {"dev1"}
DevArgs == DevIds \cup {"dev2"}
AgentIds == {"agent1", "agent2"}
TenantIds == {"acme", "acme-eu"}

\* table enterprises: no handler writes it
Enterprises == <<[id |-> "u-E1", enterprise_id |-> "E1"],
                 [id |-> "u-E2", enterprise_id |-> "E2"]>>

\* enterprise_id strings a request may carry
EnterpriseArgs == {None, Some("E1"), Some("u-E1")}

-----------------------------------------------------------------------------
\* Identity registry

\* SELECT id FROM enterprises WHERE enterprise_id = $1 (.ok().flatten())
enterprise_uuid(arg) ==
    IF IsSome(arg) /\ Rows(Enterprises, LAMBDA r : r.enterprise_id = Unwrap(arg)) # {}
    THEN Some(Enterprises[CHOOSE i \in Rows(Enterprises,
                 LAMBDA r : r.enterprise_id = Unwrap(arg)) : TRUE].id)
    ELSE None

\* fetch_optional of the developer row with this external id (its position)
find_developer(devs, developer_id) ==
    Rows(devs, LAMBDA r : r.developer_id = developer_id)

find_agent(ags, agent_id) == Rows(ags, LAMBDA r : r.agent_id = agent_id)

find_tenant(tns, tenant_id) == Rows(tns, LAMBDA r : r.tenant_id = tenant_id)

\* CertificateAuthority::issue_agent_certificate: leaf for CN = agent_id,
\* followed by the CA certificate
issue_agent_certificate(agent_id, public_key) ==
    <<[cn |-> agent_id, o |-> "Pathwell Agent"], "ca_cert">>

ErrorResponse(op, id, status, error) ==
    [op |-> op, id |-> id, status |-> status, error |-> error, body |-> None]

OkResponse(op, id, status, body) ==
    [op |-> op, id |-> id, status |-> status, error |-> "", body |-> Some(body)]

\* a variant of register_developer without the existing-developer check
register_developer_result_unchecked(devs, p) ==
    [resp |-> OkResponse("register_developer", p.developer_id, 200,
                         [developer_id |-> p.developer_id]),
     developers |-> Append(devs,
         [developer_id |-> p.developer_id,
          enterprise_id |-> enterprise_uuid(p.enterprise_id),
          public_key |-> p.public_key])]

\* register_developer: the response and the table after the call
register_developer_result(devs, p) ==
    IF find_developer(devs, p.developer_id) # {}
    THEN [resp |-> ErrorResponse("register_developer", p.developer_id, 409,
                                 "developer_exists"),
          developers |-> devs]
    ELSE [resp |-> OkResponse("register_developer", p.developer_id, 200,
                              [developer_id |-> p.developer_id]),
          developers |-> Append(devs,
              [developer_id |-> p.developer_id,
               enterprise_id |-> enterprise_uuid(p.enterprise_id),
               public_key |-> p.public_key])]

\* a variant of register_agent without the enterprise check
register_agent_result_unchecked_enterprise(devs, ags, p) ==
    LET dev == find_developer(devs, p.developer_id)
        d == CHOOSE i \in dev : TRUE
    IN  IF dev = {}
        THEN [resp |-> ErrorResponse("register_agent", p.agent_id, 404,
                                     "developer_not_found"),
              agents |-> ags]
        ELSE IF find_agent(ags, p.agent_id) # {}
        THEN [resp |-> ErrorResponse("register_agent", p.agent_id, 409,
                                     "agent_exists"),
              agents |-> ags]
        ELSE LET chain == issue_agent_certificate(p.agent_id, p.public_key)
             IN  [resp |-> OkResponse("register_agent", p.agent_id, 200,
                        [agent_id |-> p.agent_id, certificate_chain |-> chain]),
                  agents |-> Append(ags,
                      [agent_id |-> p.agent_id,
                       developer_id |-> d,
                       enterprise_id |-> enterprise_uuid(p.enterprise_id),
                       public_key |-> p.public_key,
                       certificate_chain |-> chain,
                       revoked_at |-> None])]

\* register_agent: the response and the table after the call
register_agent_result(devs, ags, p) ==
    LET dev == find_developer(devs, p.developer_id)
        d == CHOOSE i \in dev : TRUE
    IN  IF dev = {}
        THEN [resp |-> ErrorResponse("register_agent", p.agent_id, 404,
                                     "developer_not_found"),
              agents |-> ags]
        ELSE IF /\ IsSome(p.enterprise_id)
                /\ IsSome(devs[d].enterprise_id)
                /\ Unwrap(devs[d].enterprise_id) # Unwrap(p.enterprise_id)
        THEN [resp |-> ErrorResponse("register_agent", p.agent_id, 400,
                                     "enterprise_mismatch"),
              agents |-> ags]
        ELSE IF find_agent(ags, p.agent_id) # {}
        THEN [resp |-> ErrorResponse("register_agent", p.agent_id, 409,
                                     "agent_exists"),
              agents |-> ags]
        ELSE LET chain == issue_agent_certificate(p.agent_id, p.public_key)
             IN  [resp |-> OkResponse("register_agent", p.agent_id, 200,
                        [agent_id |-> p.agent_id, certificate_chain |-> chain]),
                  agents |-> Append(ags,
                      [agent_id |-> p.agent_id,
                       developer_id |-> d,
                       enterprise_id |-> enterprise_uuid(p.enterprise_id),
                       public_key |-> p.public_key,
                       certificate_chain |-> chain,
                       revoked_at |-> None])]

\* a variant of validate_agent that does not look at revoked_at
validate_agent_response_always_valid(ags, agent_id) ==
    LET found == find_agent(ags, agent_id)
        agent == ags[CHOOSE i \in found : TRUE]
    IN  IF found = {}
        THEN ErrorResponse("validate_agent", agent_id, 404, "agent_not_found")
        ELSE OkResponse("validate_agent", agent_id, 200,
                 [valid |-> TRUE,
                  agent_id |-> agent.agent_id,
                  developer_id |-> agent.developer_id,
                  enterprise_id |-> agent.enterprise_id,
                  revoked |-> FALSE])

\* validate_agent (v1): the response
validate_agent_response(ags, agent_id) ==
    LET found == find_agent(ags, agent_id)
        agent == ags[CHOOSE i \in found : TRUE]
    IN  IF found = {}
        THEN ErrorResponse("validate_agent", agent_id, 404, "agent_not_found")
        ELSE OkResponse("validate_agent", agent_id, 200,
                 [valid |-> ~IsSome(agent.revoked_at),
                  agent_id |-> agent.agent_id,
                  developer_id |-> agent.developer_id,
                  enterprise_id |-> agent.enterprise_id,
                  revoked |-> IsSome(agent.revoked_at)])

\* a variant of revoke_agent whose UPDATE leaves revoked_at alone
revoke_agent_result_unmarked(ags, agent_id) ==
    LET hit == {i \in find_agent(ags, agent_id) : ~IsSome(ags[i].revoked_at)}
    IN  IF hit = {}
        THEN [resp |-> ErrorResponse("revoke_agent", agent_id, 404,
                                     "agent_not_found"),
              agents |-> ags]
        ELSE [resp |-> [op |-> "revoke_agent", id |-> agent_id, status |-> 204,
                        error |-> "", body |-> None],
              agents |-> ags]

\* revoke_agent: UPDATE agents SET revoked_at = now WHERE agent_id = $2 AND
\* revoked_at IS NULL; 404 when no row was affected
revoke_agent_result(ags, agent_id) ==
    LET hit == {i \in find_agent(ags, agent_id) : ~IsSome(ags[i].revoked_at)}
    IN  IF hit = {}
        THEN [resp |-> ErrorResponse("revoke_agent", agent_id, 404,
                                     "agent_not_found"),
              agents |-> ags]
        ELSE [resp |-> [op |-> "revoke_agent", id |-> agent_id, status |-> 204,
                        error |-> "", body |-> None],
              agents |-> [i \in 1..Len(ags) |->
                  IF i \in hit THEN [ags[i] EXCEPT !.revoked_at = Some("now")]
                  ELSE ags[i]]]

\* the trigger on tenants that fills hierarchy_depth, hierarchy_path and
\* root_tenant_id of an inserted row; a row's id is its position in the table
tenant_hierarchy_trigger(tns, row) ==
    IF IsSome(row.parent_tenant_id)
    THEN LET parent == tns[Unwrap(row.parent_tenant_id)]
         IN  [row EXCEPT !.hierarchy_depth = parent.hierarchy_depth + 1,
                         !.root_tenant_id = parent.root_tenant_id,
                         !.hierarchy_path =
                             Some(Append(Unwrap(parent.hierarchy_path), row.tenant_id))]
    ELSE [row EXCEPT !.hierarchy_depth = 0,
                     !.root_tenant_id = Some(Len(tns) + 1),
                     !.hierarchy_path = Some(<<row.tenant_id>>)]

\* create_tenant / create_root_tenant: the response and the table after
create_tenant_result(tns, p) ==
    IF find_tenant(tns, p.tenant_id) # {}
    THEN [resp |-> ErrorResponse("create_tenant", p.tenant_id, 409,
                                 "tenant_exists"),
          tenants |-> tns]
    ELSE IF IsSome(p.parent_tenant_id)
            /\ find_tenant(tns, Unwrap(p.parent_tenant_id)) = {}
    THEN [resp |-> ErrorResponse("create_tenant", p.tenant_id, 404,
                                 "parent_not_found"),
          tenants |-> tns]
    ELSE [resp |-> OkResponse("create_tenant", p.tenant_id, 200,
                              [tenant_id |-> p.tenant_id]),
          tenants |-> Append(tns, tenant_hierarchy_trigger(tns,
              [tenant_id |-> p.tenant_id,
               display_name |-> None,
               parent_tenant_id |->
                   IF IsSome(p.parent_tenant_id)
                   THEN Some(CHOOSE i \in find_tenant(tns,
                                 Unwrap(p.parent_tenant_id)) : TRUE)
                   ELSE None,
               root_tenant_id |-> None,
               hierarchy_depth |-> 0,
               hierarchy_path |-> None,
               deactivated_at |-> None]))]

\* a variant of update_tenant whose UPDATE also writes hierarchy_depth
update_tenant_result_flattening(tns, tenant_id, p) ==
    LET hit == {i \in find_tenant(tns, tenant_id) : ~IsSome(tns[i].deactivated_at)}
    IN  IF hit = {}
        THEN [resp |-> ErrorResponse("update_tenant", tenant_id, 404,
                                     "tenant_not_found"),
              tenants |-> tns]
        ELSE [resp |-> OkResponse("update_tenant", tenant_id, 200,
                                  [tenant_id |-> tenant_id]),
              tenants |-> [i \in 1..Len(tns) |->
                  IF i \in hit
                  THEN [tns[i] EXCEPT !.hierarchy_depth = 0,
                           !.display_name =
                               IF IsSome(p.display_name) THEN p.display_name ELSE @]
                  ELSE tns[i]]]

\* update_tenant: UPDATE tenants SET display_name = COALESCE($2, display_name),
\* .. WHERE tenant_id = $1 AND deactivated_at IS NULL
update_tenant_result(tns, tenant_id, p) ==
    LET hit == {i \in find_tenant(tns, tenant_id) : ~IsSome(tns[i].deactivated_at)}
    IN  IF hit = {}
        THEN [resp |-> ErrorResponse("update_tenant", tenant_id, 404,
                                     "tenant_not_found"),
              tenants |-> tns]
        ELSE [resp |-> OkResponse("update_tenant", tenant_id, 200,
                                  [tenant_id |-> tenant_id]),
              tenants |-> [i \in 1..Len(tns) |->
                  IF i \in hit
                  THEN [tns[i] EXCEPT !.display_name =
                           IF IsSome(p.display_name) THEN p.display_name ELSE @]
                  ELSE tns[i]]]

\* deactivate_tenant
deactivate_tenant_result(tns, tenant_id) ==
    LET hit == {i \in find_tenant(tns, tenant_id) : ~IsSome(tns[i].deactivated_at)}
    IN  IF hit = {}
        THEN [resp |-> ErrorResponse("deactivate_tenant", tenant_id, 404,
                                     "tenant_not_found"),
              tenants |-> tns]
        ELSE [resp |-> [op |-> "deactivate_tenant", id |-> tenant_id,
                        status |-> 204, error |-> "", body |-> None],
              tenants |-> [i \in 1..Len(tns) |->
                  IF i \in hit THEN [tns[i] EXCEPT !.deactivated_at = Some("now")]
                  ELSE tns[i]]]

RegisterDeveloper ==
    \E d \in DevIds, e \in EnterpriseArgs :
        LET res == register_developer_result(developers,
                       [developer_id |-> d, enterprise_id |-> e, public_key |-> "PK"])
        IN  /\ developers' = res.developers
            /\ regResp' = res.resp
            /\ UNCHANGED <<agents, tenants, revokedOk, gw, pe, queryVars, storeVars, trustVars, taskVars, sinkVars>>

RegisterAgentAmong(enterprises) ==
    \E a \in AgentIds, d \in DevArgs, e \in enterprises :
        LET res == register_agent_result(developers, agents,
                       [agent_id |-> a, developer_id |-> d, enterprise_id |-> e,
                        public_key |-> "PK"])
        IN  /\ agents' = res.agents
            /\ regResp' = res.resp
            /\ UNCHANGED <<developers, tenants, revokedOk, gw, pe, queryVars, storeVars, trustVars, taskVars, sinkVars>>

RegisterAgent == RegisterAgentAmong(EnterpriseArgs)

\* enterprise_id strings of register_agent, a second enterprise among them
AgentEnterpriseArgs == EnterpriseArgs \cup {Some("E2")}

\* register_developer of task p, statement by statement
RegIdle ==
    [pc |-> "idle", developer_id |-> "", enterprise_id |-> None,
     existing |-> FALSE, status |-> 0, error |-> ""]

\* the unique index on developers.developer_id: whether an INSERT of this
\* external id is refused
developers_developer_id_key(devs, developer_id) ==
    find_developer(devs, developer_id) # {}

\* INSERT INTO developers ... .map_err(database_error)?
insert_developer(devs, p) ==
    IF developers_developer_id_key(devs, p.developer_id)
    THEN [resp |-> ErrorResponse("register_developer", p.developer_id, 500,
                                 "database_error"),
          developers |-> devs]
    ELSE register_developer_result_unchecked(devs, p)

\* SELECT id FROM developers WHERE developer_id = $1
RegisterDeveloperSelect(p) ==
    /\ reg[p].pc = "idle"
    /\ \E d \in DevArgs, e \in EnterpriseArgs :
           reg' = [reg EXCEPT ![p] =
                      [pc |-> "selected", developer_id |-> d,
                       enterprise_id |-> e,
                       existing |-> find_developer(developers, d) # {},
                       status |-> 0, error |-> ""]]
    /\ UNCHANGED <<regVars, gw, pe, queryVars, storeVars, trustVars, task,
                   started, sinkVars>>

\* if existing.is_some() { return 409 }, the enterprise lookup and the INSERT
RegisterDeveloperInsert(p) ==
    /\ reg[p].pc = "selected"
    /\ LET res == IF reg[p].existing
                  THEN [resp |-> ErrorResponse("register_developer",
                                     reg[p].developer_id, 409,
                                     "developer_exists"),
                        developers |-> developers]
                  ELSE insert_developer(developers,
                           [developer_id |-> reg[p].developer_id,
                            enterprise_id |-> reg[p].enterprise_id,
                            public_key |-> "PK"])
       IN  /\ developers' = res.developers
           /\ regResp' = res.resp
           /\ reg' = [reg EXCEPT ![p] =
                          [@ EXCEPT !.pc = "done",
                                    !.status = res.resp.status,
                                    !.error = res.resp.error]]
    /\ UNCHANGED <<agents, tenants, revokedOk, gw, pe, queryVars, storeVars,
                   trustVars, task, started, sinkVars>>

ValidateAgent ==
    \E a \in AgentIds :
        /\ regResp' = validate_agent_response(agents, a)
        /\ UNCHANGED <<developers, agents, tenants, revokedOk, gw, pe, queryVars, storeVars, trustVars, taskVars, sinkVars>>

RevokeAgent ==
    \E a \in AgentIds :
        LET res == revoke_agent_result(agents, a)
        IN  /\ agents' = res.agents
            /\ regResp' = res.resp
            /\ revokedOk' = IF res.resp.status = 204 THEN revokedOk \cup {a}
                            ELSE revokedOk
            /\ UNCHANGED <<developers, tenants, gw, pe, queryVars, storeVars, trustVars, taskVars, sinkVars>>

\* create_tenant called with the external ids of ids
CreateTenantAmong(ids) ==
    \E t \in ids, par \in {None} \cup {Some(x) : x \in ids} :
        LET res == create_tenant_result(tenants,
                       [tenant_id |-> t, parent_tenant_id |-> par])
        IN  /\ tenants' = res.tenants
            /\ regResp' = res.resp
            /\ UNCHANGED <<developers, agents, revokedOk, gw, pe, queryVars, storeVars, trustVars, taskVars, sinkVars>>

CreateTenant == CreateTenantAmong(TenantIds)

UpdateTenantAmong(ids) ==
    \E t \in ids, n \in {None, Some("Acme Ltd")} :
        LET res == update_tenant_result(tenants, t, [display_name |-> n])
        IN  /\ tenants' = res.tenants
            /\ regResp' = res.resp
            /\ UNCHANGED <<developers, agents, revokedOk, gw, pe, queryVars, storeVars, trustVars, taskVars, sinkVars>>

UpdateTenant == UpdateTenantAmong(TenantIds)

DeactivateTenantAmong(ids) ==
    \E t \in ids :
        LET res == deactivate_tenant_result(tenants, t)
        IN  /\ tenants' = res.tenants
            /\ regResp' = res.resp
            /\ UNCHANGED <<developers, agents, revokedOk, gw, pe, queryVars, storeVars, trustVars, taskVars, sinkVars>>

DeactivateTenant == DeactivateTenantAmong(TenantIds)

\* the external ids of the tenant hierarchy queries: a third tenant makes two
\* ancestors and two children possible
HierarchyTenantIds == TenantIds \cup {"acme-us"}

\* the order of the external ids as text (ORDER BY tenant_id)
TenantIdOrder == <<"acme", "acme-eu", "acme-us">>
tenant_id_rank(tenant_id) ==
    CHOOSE k \in 1..Len(TenantIdOrder) : TenantIdOrder[k] = tenant_id

\* ORDER BY: the sequences of the positions S in which key ascends (positions
\* of equal key come in any order)
order_by(S, key) ==
    LET n == Cardinality(S)
    IN  {p \in [1..n -> S] :
            /\ \A i, j \in 1..n : i # j => p[i] # p[j]
            /\ \A i, j \in 1..n : i < j => key[p[i]] <= key[p[j]]}

\* .. AND deactivated_at IS NULL
active_tenants(tns) == {i \in 1..Len(tns) : ~IsSome(tns[i].deactivated_at)}

TenantSummary(tns, i) ==
    [id |-> i, tenant_id |-> tns[i].tenant_id,
     display_name |-> tns[i].display_name,
     hierarchy_depth |-> tns[i].hierarchy_depth]

\* get_tenant
get_tenant_result(tns, tenant_id) ==
    LET hit == find_tenant(tns, tenant_id) \cap active_tenants(tns)
    IN  IF hit = {}
        THEN ErrorResponse("get_tenant", tenant_id, 404, "tenant_not_found")
        ELSE LET i == CHOOSE x \in hit : TRUE
             IN  OkResponse("get_tenant", tenant_id, 200,
                     [id |-> i, tenant_id |-> tns[i].tenant_id,
                      display_name |-> tns[i].display_name,
                      parent_tenant_id |-> tns[i].parent_tenant_id,
                      root_tenant_id |-> tns[i].root_tenant_id,
                      hierarchy_depth |-> tns[i].hierarchy_depth,
                      hierarchy_path |-> tns[i].hierarchy_path])

\* get_tenant_hierarchy, the ancestors query: the rows named in the path
\* before its last element, AND deactivated_at IS NULL
ancestor_rows(tns, tenant) ==
    LET path == tenant.hierarchy_path
    IN  IF IsSome(path) /\ Len(Unwrap(path)) > 1
        THEN {i \in active_tenants(tns) :
                 \E k \in 1..(Len(Unwrap(path)) - 1) :
                     tns[i].tenant_id = Unwrap(path)[k]}
        ELSE {}

\* a variant of the children query that returns the rows in table order
children_order_unsorted(tns, S) == order_by(S, [i \in S |-> i])

\* get_tenant_hierarchy, the children query: .. ORDER BY tenant_id
children_order(tns, S) ==
    order_by(S, [i \in S |-> tenant_id_rank(tns[i].tenant_id)])

\* get_tenant_hierarchy: the responses it may give
get_tenant_hierarchy_results(tns, tenant_id) ==
    LET hit == find_tenant(tns, tenant_id) \cap active_tenants(tns)
    IN  IF hit = {}
        THEN {ErrorResponse("get_tenant_hierarchy", tenant_id, 404,
                            "tenant_not_found")}
        ELSE LET t == CHOOSE x \in hit : TRUE
                 anc == ancestor_rows(tns, tns[t])
                 ch == {i \in active_tenants(tns) :
                           tns[i].parent_tenant_id = Some(t)}
             IN  {OkResponse("get_tenant_hierarchy", tenant_id, 200,
                      [tenant |-> TenantSummary(tns, t),
                       ancestors |-> [k \in 1..Cardinality(anc) |->
                                         TenantSummary(tns, a[k])],
                       children |-> [k \in 1..Cardinality(ch) |->
                                        TenantSummary(tns, c[k])]]) :
                     a \in order_by(anc, [i \in anc |-> tns[i].hierarchy_depth]),
                     c \in children_order(tns, ch)}

GetTenant ==
    \E t \in HierarchyTenantIds :
        /\ regResp' = get_tenant_result(tenants, t)
        /\ UNCHANGED <<developers, agents, tenants, revokedOk, gw, pe, queryVars, storeVars, trustVars, taskVars, sinkVars>>

GetTenantHierarchy ==
    \E t \in HierarchyTenantIds :
        /\ regResp' \in get_tenant_hierarchy_results(tenants, t)
        /\ UNCHANGED <<developers, agents, tenants, revokedOk, gw, pe, queryVars, storeVars, trustVars, taskVars, sinkVars>>

-----------------------------------------------------------------------------
\* Identity registry: trust scores.  Scores are in hundredths; decimals are
\* exact fractions [n, d] in lowest terms.

\* Bound of the model: history rows written
MaxUpdates == 3

\* tasks that may run update_trust_dimension at the same time
Procs == {1, 2}

Dimensions == {"behavior", "validation", "provenance", "alignment", "reputation"}

\* Decimal values are exact fractions in lowest terms
RECURSIVE Gcd(_, _)
Gcd(a, b) == IF b = 0 THEN a ELSE Gcd(b, a % b)
Frac(n, d) == LET g == Gcd(n, d) IN [n |-> n \div g, d |-> d \div g]
FracLeq(x, y) == x.n * y.d <= y.n * x.d

\* payload.dimension values a caller may send, and str::to_lowercase on them
DimensionArgs == {"behavior", "Validation", "speed"}
to_lowercase(s) == IF s = "Validation" THEN "validation" ELSE s

\* payload.delta values a caller may send
DeltaArgs == {-60, 30}

\* initial_dimensions of CreateTrustScoreRequest
InitialDimensionArgs ==
    {None,
     Some([behavior |-> Some(90), validation |-> None, provenance |-> None,
           alignment |-> None, reputation |-> None]),
     Some([behavior |-> Some(150), validation |-> None, provenance |-> None,
           alignment |-> None, reputation |-> None])}

\* TrustDimensionScores::default(): the derived Default, every field 0.0
TrustDimensionScores_default == [d \in Dimensions |-> 0]

\* a variant of calculate_composite that leaves reputation out of the sum
calculate_composite_of_four(dims) ==
    Frac(dims.behavior + dims.validation + dims.provenance + dims.alignment, 500)

\* TrustDimensionScores::calculate_composite
calculate_composite(dims) ==
    Frac(dims.behavior + dims.validation + dims.provenance + dims.alignment
             + dims.reputation, 500)

\* f64::clamp(0.0, 1.0)
clamp(x) == IF x < 0 THEN 0 ELSE IF x > 100 THEN 100 ELSE x

TrustError(op, status, error) ==
    [op |-> op, status |-> status, error |-> error, dimension |-> "",
     delta |-> 0, last_calculated_at |-> 0]

\* create_trust_score: the response and the table after the call
create_trust_score_result(scores, init, now) ==
    IF IsSome(scores)
    THEN [resp |-> TrustError("create_trust_score", 409, "trust_score_exists"),
          trust_scores |-> scores]
    ELSE LET dimensions ==
                 IF IsSome(init)
                 THEN [d \in Dimensions |->
                          IF IsSome(Unwrap(init)[d]) THEN Unwrap(Unwrap(init)[d])
                          ELSE 50]
                 ELSE TrustDimensionScores_default
         IN  [resp |-> [op |-> "create_trust_score", status |-> 200, error |-> "",
                        dimension |-> "", delta |-> 0, last_calculated_at |-> now],
              trust_scores |-> Some([id |-> "ts1",
                                     composite_score |-> calculate_composite(dimensions),
                                     dimension_scores |-> dimensions,
                                     last_calculated_at |-> now])]

\* update_trust_dimension, up to its first early return: SELECT the current
\* row, apply the delta, recompute the composite.  The locals of the call.
update_select(scores, payload) ==
    IF ~IsSome(scores)
    THEN [pc |-> "done", payload |-> payload,
          resp |-> TrustError("update_trust_dimension", 404, "trust_score_not_found")]
    ELSE [pc |-> "history", payload |-> payload, current |-> Unwrap(scores)]

\* the match on payload.dimension.to_lowercase(): None for an unknown dimension
apply_delta(dims, payload) ==
    LET d == to_lowercase(payload.dimension)
    IN  IF d \in Dimensions
        THEN Some([dims EXCEPT ![d] = clamp(@ + payload.delta)])
        ELSE None

\* update_trust_dimension, from the match to the history INSERT
update_history(history, local, now) ==
    LET dimensions == apply_delta(local.current.dimension_scores, local.payload)
    IN  IF ~IsSome(dimensions)
        THEN [local |-> [pc |-> "done", payload |-> local.payload,
                         resp |-> TrustError("update_trust_dimension", 400,
                                             "invalid_dimension")],
              trust_score_history |-> history]
        ELSE [local |-> [pc |-> "update", payload |-> local.payload,
                         current |-> local.current,
                         dimensions |-> Unwrap(dimensions),
                         new_composite |-> calculate_composite(Unwrap(dimensions)),
                         now |-> now],
              trust_score_history |-> Append(history,
                  [trust_score_id |-> local.current.id,
                   composite_score |-> local.current.composite_score,
                   dimension_scores |-> local.current.dimension_scores,
                   recorded_at |-> now])]

\* update_trust_dimension: UPDATE trust_scores .. RETURNING, and the response
update_live(scores, local) ==
    IF ~IsSome(scores)
    THEN [resp |-> TrustError("update_trust_dimension", 500, "database_error"),
          trust_scores |-> scores]
    ELSE [resp |-> [op |-> "update_trust_dimension", status |-> 200, error |-> "",
                    dimension |-> local.payload.dimension,
                    delta |-> local.payload.delta,
                    last_calculated_at |-> local.now],
          trust_scores |-> Some([Unwrap(scores) EXCEPT
                                    !.composite_score = local.new_composite,
                                    !.dimension_scores = local.dimensions,
                                    !.last_calculated_at = local.now])]

Idle == [pc |-> "idle"]

CreateTrustScore ==
    \E init \in InitialDimensionArgs :
        LET res == create_trust_score_result(trust_scores, init, trustClock + 1)
        IN  /\ trust_scores' = res.trust_scores
            /\ trustResp' = res.resp
            /\ trustClock' = IF res.resp.status = 200 THEN trustClock + 1
                             ELSE trustClock
            /\ UNCHANGED <<regVars, gw, pe, queryVars, storeVars, taskVars, sinkVars, trust_score_history, upd>>

\* update_trust_dimension run as one call, nothing else running
UpdateTrustDimension ==
    \E dimension \in DimensionArgs, delta \in DeltaArgs :
        LET l1 == update_select(trust_scores,
                                [dimension |-> dimension, delta |-> delta])
            h == update_history(trust_score_history, l1, trustClock + 1)
            res == update_live(trust_scores, h.local)
        IN  /\ \A p \in Procs : upd[p].pc = "idle"
            /\ Len(trust_score_history) < MaxUpdates
            /\ IF l1.pc = "done"
               THEN /\ trustResp' = l1.resp
                    /\ UNCHANGED <<trust_scores, trust_score_history, trustClock>>
               ELSE IF h.local.pc = "done"
               THEN /\ trustResp' = h.local.resp
                    /\ UNCHANGED <<trust_scores, trust_score_history, trustClock>>
               ELSE /\ trustResp' = res.resp
                    /\ trust_scores' = res.trust_scores
                    /\ trust_score_history' = h.trust_score_history
                    /\ trustClock' = trustClock + 1
            /\ UNCHANGED <<regVars, gw, pe, queryVars, storeVars, taskVars, sinkVars, upd>>

\* update_trust_dimension of task p, statement by statement
UpdateSelect(p) ==
    \E dimension \in DimensionArgs, delta \in DeltaArgs :
        LET l1 == update_select(trust_scores,
                                [dimension |-> dimension, delta |-> delta])
        IN  /\ upd[p].pc = "idle"
            /\ Len(trust_score_history)
                   + Cardinality({q \in Procs : upd[q].pc # "idle"}) < MaxUpdates
            /\ IF l1.pc = "done"
               THEN trustResp' = l1.resp /\ upd' = upd
               ELSE trustResp' = trustResp /\ upd' = [upd EXCEPT ![p] = l1]
            /\ UNCHANGED <<regVars, gw, pe, queryVars, storeVars, taskVars, sinkVars, trust_scores,
                           trust_score_history, trustClock>>

UpdateHistory(p) ==
    LET h == update_history(trust_score_history, upd[p], trustClock + 1)
    IN  /\ upd[p].pc = "history"
        /\ IF h.local.pc = "done"
           THEN /\ trustResp' = h.local.resp
                /\ upd' = [upd EXCEPT ![p] = Idle]
                /\ UNCHANGED <<trust_score_history, trustClock>>
           ELSE /\ upd' = [upd EXCEPT ![p] = h.local]
                /\ trust_score_history' = h.trust_score_history
                /\ trustClock' = trustClock + 1
                /\ trustResp' = trustResp
        /\ UNCHANGED <<regVars, gw, pe, queryVars, storeVars, taskVars, sinkVars, trust_scores>>

UpdateLive(p) ==
    LET res == update_live(trust_scores, upd[p])
    IN  /\ upd[p].pc = "update"
        /\ trust_scores' = res.trust_scores
        /\ trustResp' = res.resp
        /\ upd' = [upd EXCEPT ![p] = Idle]
        /\ UNCHANGED <<regVars, gw, pe, queryVars, storeVars, taskVars, sinkVars, trust_score_history, trustClock>>

-----------------------------------------------------------------------------
\* Proxy gateway

Methods == {"GET", "OPTIONS"}

\* what the network does to the gateway's call of the registry / policy engine
NetOutcomes == {"ok", "neterr", "http500"}

\* the policy engine's answers to POST /v1/evaluate
PolicyAnswers ==
    {[allowed |-> TRUE, reason |-> "Policy allows request"],
     [allowed |-> FALSE, reason |-> "Policy denies request"]}

\* what target_req.send() gives: Err, or the upstream's status
UpstreamOutcomes == {"send_err", "200"}

upstream_status(up) == IF up = "200" THEN 200 ELSE 503

Ok(x) == [ok |-> TRUE, value |-> Some(x), err |-> <<>>]
Err(e) == [ok |-> FALSE, value |-> None, err |-> e]

\* IdentityClient::validate_agent: Err on a send error or a non-2xx status
identity_client_validate_agent(net, resp) ==
    IF net = "neterr" THEN Err(<<"error sending request">>)
    ELSE IF net = "http500"
    THEN Err(<<"Identity validation failed: ", 500>>)
    ELSE IF ~(resp.status \in 200..299)
    THEN Err(<<"Identity validation failed: ", resp.status>>)
    ELSE Ok(Unwrap(resp.body))

\* a variant of PolicyClient::evaluate without the status check
policy_client_evaluate_unchecked(net, answer) ==
    IF net = "neterr" THEN Err(<<"error sending request">>)
    ELSE Ok(answer)

\* PolicyClient::evaluate: Err on a send error or a non-2xx status
policy_client_evaluate(net, answer) ==
    IF net = "neterr" THEN Err(<<"error sending request">>)
    ELSE IF net = "http500"
    THEN Err(<<"Policy evaluation failed: ", 500>>)
    ELSE Ok(answer)

\* header names, as sequences of segments so that the Pathwell prefix is one
AGENT_ID_HEADER == <<"x-pathwell-", "agent-id">>
SIGNATURE_HEADER == <<"x-pathwell-", "signature">>
CORRELATION_ID_HEADER == <<"x-correlation-id">>
TRACE_ID_HEADER == <<"x-pathwell-", "trace-id">>

Header(name, value) == [name |-> name, value |-> value]

\* Uuid::to_string and Uuid::parse_str, on header values given as sequences
Uuid_to_string(u) == <<"hyphenated", u>>
Uuid_parse_str(s) ==
    IF Len(s) = 2 /\ s[1] = "hyphenated" THEN Some(s[2]) ELSE None

\* the headers a caller sends next to the agent id, in wire order (http keeps
\* the names in lower case and every value of a repeated name)
HeaderArgs ==
    {<<>>,
     <<Header(<<"host">>, <<"gateway.local">>),
       Header(<<"content-length">>, <<"2">>),
       Header(SIGNATURE_HEADER, <<"sig">>),
       Header(TRACE_ID_HEADER, Uuid_to_string(<<"req", 1>>)),
       Header(CORRELATION_ID_HEADER, <<"ord-1">>),
       Header(<<"accept">>, <<"text/plain">>)>>,
     <<Header(TRACE_ID_HEADER, <<"not-a-uuid">>),
       Header(<<"accept">>, <<"text/plain">>),
       Header(<<"accept">>, <<"text/html">>)>>}

\* what the receipt store does with the POST of a receipt
ReceiptStoreOutcomes == {"ok", "err", "hang"}

\* the headers of the upstream's answer
UpstreamResponseHeaders == <<Header(<<"content-type">>, <<"text/plain">>)>>

\* HeaderMap::get: the first value of the name
header_get(headers, name) ==
    IF \E i \in 1..Len(headers) : headers[i].name = name
    THEN Some(headers[CHOOSE i \in 1..Len(headers) :
                  /\ headers[i].name = name
                  /\ \A j \in 1..(i - 1) : headers[j].name # name].value)
    ELSE None

\* req.headers().iter().map(..).collect::<HashMap<String, String>>(): one
\* value per name, a later pair replacing an earlier one
headers_to_map(headers) ==
    [n \in {headers[i].name : i \in 1..Len(headers)} |->
        headers[CHOOSE i \in 1..Len(headers) :
            /\ headers[i].name = n
            /\ \A j \in (i + 1)..Len(headers) : headers[j].name # n].value]

\* RequestBuilder::header / response Builder::header: append a value
add_header(h, name, value) ==
    [n \in DOMAIN h \cup {name} |->
        IF n = name
        THEN (IF n \in DOMAIN h THEN Append(h[n], value) ELSE <<value>>)
        ELSE h[n]]

NoHeaders == [n \in {} |-> <<>>]

\* the loop that copies the headers of the upstream's answer to the builder
RECURSIVE copy_response_headers(_)
copy_response_headers(headers) ==
    IF headers = <<>> THEN NoHeaders
    ELSE add_header(copy_response_headers(SubSeq(headers, 1, Len(headers) - 1)),
                    headers[Len(headers)].name, headers[Len(headers)].value)

\* Interceptor::extract_trace_context
extract_trace_context(map) ==
    LET given == IF TRACE_ID_HEADER \in DOMAIN map
                 THEN Uuid_parse_str(map[TRACE_ID_HEADER]) ELSE None
    IN  [trace_id |-> IF IsSome(given) THEN Unwrap(given) ELSE new_v4(1),
         correlation_id |-> IF CORRELATION_ID_HEADER \in DOMAIN map
                            THEN Some(map[CORRELATION_ID_HEADER]) ELSE None,
         span_id |-> new_v4(2)]

\* Interceptor::intercept, header copy: the headers set on the upstream request
upstream_headers(map, trace_ctx) ==
    LET copied == [n \in {k \in DOMAIN map :
                             /\ ~starts_with(k, <<"x-pathwell-">>)
                             /\ k # <<"host">>
                             /\ k # <<"content-length">>} |-> <<map[n]>>]
        traced == add_header(copied, TRACE_ID_HEADER,
                             Uuid_to_string(trace_ctx.trace_id))
    IN  IF IsSome(trace_ctx.correlation_id)
        THEN add_header(traced, CORRELATION_ID_HEADER,
                        Unwrap(trace_ctx.correlation_id))
        ELSE traced

\* a variant of ReceiptClient::store_receipt that awaits the POST
receipt_client_store_receipt_awaited(rs) ==
    IF rs = "ok" THEN "Ok" ELSE IF rs = "err" THEN "Err" ELSE "Pending"

\* ReceiptClient::store_receipt: the POST runs in a spawned task and Ok(())
\* is returned at once
receipt_client_store_receipt(rs) == "Ok"

\* the ReceiptRequest of create_error_response
denial_receipt(status, reason, agent_id, trace_ctx) ==
    [trace_id |-> trace_ctx.trace_id,
     correlation_id |-> trace_ctx.correlation_id,
     span_id |-> trace_ctx.span_id,
     agent_id |-> agent_id,
     policy_result |-> [allowed |-> FALSE, policy_version |-> "v1"],
     identity_result |-> [valid |-> FALSE, developer_id |-> 0,
                          enterprise_id |-> None],
     metadata |-> Some([error_reason |-> reason, status_code |-> status])]

\* the response of create_error_response, with the calls made so far and the
\* receipts handed to ReceiptClient::store_receipt
denial_reply(status, reason, agent_id, calls, trace_ctx, receipts) ==
    [op |-> "intercept",
     agent_id |-> Some(agent_id),
     trace_id |-> Some(trace_ctx.trace_id),
     status |-> status,
     headers |-> add_header(
                     add_header(NoHeaders, <<"content-type">>,
                                <<"application/json">>),
                     TRACE_ID_HEADER, Uuid_to_string(trace_ctx.trace_id)),
     body |-> Some([error |-> "request_denied", reason |-> reason,
                    status |-> status,
                    trace_id |-> Uuid_to_string(trace_ctx.trace_id)]),
     identity_calls |-> calls.identity,
     policy_calls |-> calls.policy,
     upstream_calls |-> calls.upstream,
     upstream_headers |-> calls.upstream_headers,
     receipts |-> receipts]

\* a variant of create_error_response that always answers FORBIDDEN
create_error_response_forbidden(status, reason, agent_id, calls, trace_ctx) ==
    denial_reply(403, reason, agent_id, calls, trace_ctx,
                 <<denial_receipt(403, reason, agent_id, trace_ctx)>>)

\* a variant of create_error_response that drops the receipt of a 5xx reply
create_error_response_silent(status, reason, agent_id, calls, trace_ctx) ==
    denial_reply(status, reason, agent_id, calls, trace_ctx,
                 IF status >= 500 THEN <<>>
                 ELSE <<denial_receipt(status, reason, agent_id, trace_ctx)>>)

\* Interceptor::create_error_response: one denial receipt, then the reply
create_error_response(status, reason, agent_id, calls, trace_ctx) ==
    denial_reply(status, reason, agent_id, calls, trace_ctx,
                 <<denial_receipt(status, reason, agent_id, trace_ctx)>>)

NoCalls == [identity |-> 0, policy |-> 0, upstream |-> 0,
            upstream_headers |-> None]

\* Interceptor::intercept from the agent id header to Ok(hyper_response), with
\* handle_all around it: the reply, the calls made and the receipts handed to
\* ReceiptClient::store_receipt
intercept_stages(headers, method, identity, policy, up) ==
    LET agent_hdr == header_get(headers, AGENT_ID_HEADER) IN
    IF ~IsSome(agent_hdr)
    THEN \* Err(Missing header) becomes StatusCode::INTERNAL_SERVER_ERROR
         [op |-> "intercept", agent_id |-> None, trace_id |-> None,
          status |-> 500, headers |-> NoHeaders, body |-> None,
          identity_calls |-> 0, policy_calls |-> 0, upstream_calls |-> 0,
          upstream_headers |-> None, receipts |-> <<>>]
    ELSE LET agent_id == Unwrap(agent_hdr)[1]
             map == headers_to_map(headers)
             trace_ctx == extract_trace_context(map)
             c1 == [NoCalls EXCEPT !.identity = 1]
             c2 == [c1 EXCEPT !.policy = 1]
             c3 == [c2 EXCEPT !.upstream = 1,
                              !.upstream_headers =
                                  Some(upstream_headers(map, trace_ctx))]
    IN
    IF ~identity.ok
    THEN create_error_response(403,
             <<"Identity validation failed: ">> \o identity.err, agent_id,
             c1, trace_ctx)
    ELSE LET identity_result == Unwrap(identity.value) IN
    IF ~identity_result.valid \/ identity_result.revoked
    THEN create_error_response(403, <<"Agent identity invalid or revoked">>,
             agent_id, c1, trace_ctx)
    ELSE IF ~policy.ok
    THEN create_error_response(500,
             <<"Policy evaluation failed: ">> \o policy.err, agent_id,
             c2, trace_ctx)
    ELSE LET policy_result == Unwrap(policy.value) IN
    IF ~policy_result.allowed
    THEN create_error_response(403, <<policy_result.reason>>, agent_id,
             c2, trace_ctx)
    ELSE IF ~(method \in {"GET", "POST", "PUT", "PATCH", "DELETE"})
    THEN create_error_response(405, <<"Unsupported HTTP method">>, agent_id,
             c2, trace_ctx)
    ELSE IF up = "send_err"
    THEN create_error_response(502,
             <<"Failed to forward request: ", "error sending request">>,
             agent_id, c3, trace_ctx)
    ELSE [op |-> "intercept",
          agent_id |-> Some(agent_id),
          trace_id |-> Some(trace_ctx.trace_id),
          status |-> upstream_status(up),
          headers |-> add_header(
                          copy_response_headers(UpstreamResponseHeaders),
                          TRACE_ID_HEADER, Uuid_to_string(trace_ctx.trace_id)),
          body |-> None,
          identity_calls |-> 1, policy_calls |-> 1, upstream_calls |-> 1,
          upstream_headers |-> c3.upstream_headers,
          receipts |-> <<[trace_id |-> trace_ctx.trace_id,
                          correlation_id |-> trace_ctx.correlation_id,
                          span_id |-> trace_ctx.span_id,
                          agent_id |-> agent_id,
                          policy_result |-> [allowed |-> policy_result.allowed,
                                             policy_version |-> "v1"],
                          identity_result |->
                              [valid |-> identity_result.valid,
                               developer_id |-> identity_result.developer_id,
                               enterprise_id |-> identity_result.enterprise_id],
                          metadata |-> None]>>]

\* the caller has no reply while the handler waits
PendingReply(r) ==
    [r EXCEPT !.op = "pending", !.status = 0, !.headers = NoHeaders,
              !.body = None]

\* Interceptor::intercept: the reply is returned once
\* self.receipt_client.store_receipt(receipt).await has returned
intercept(headers, method, identity, policy, up, rs) ==
    LET r == intercept_stages(headers, method, identity, policy, up)
    IN  IF r.receipts # <<>> /\ receipt_client_store_receipt(rs) = "Pending"
        THEN PendingReply(r)
        ELSE r

NoAnswer == [allowed |-> FALSE, reason |-> ""]
NoResponse == [op |-> "none", id |-> "", status |-> 0, error |-> "", body |-> None]

GwNone ==
    [reply |-> [op |-> "none", agent_id |-> None, trace_id |-> None,
                status |-> 0, headers |-> NoHeaders, body |-> None,
                identity_calls |-> 0, policy_calls |-> 0, upstream_calls |-> 0,
                upstream_headers |-> None, receipts |-> <<>>],
     headers |-> <<>>, method |-> "", idnet |-> "", idresp |-> NoResponse,
     polnet |-> "", answer |-> NoAnswer, up |-> "", rs |-> "",
     after_revoke |-> FALSE]

\* One request through the gateway.  The record gw keeps, next to the reply,
\* the request's headers and method and what the network, the registry, the
\* policy engine, the upstream and the receipt store did to this request
\* (blank for a call that was not made).  Each outcome is drawn only where the
\* request gets that far.  The gateway keeps nothing from one request to the
\* next, and gw records one request: the first of the behaviour.
GatewayRequest ==
    /\ gw = GwNone
    /\ \E hdr \in {None} \cup {Some(a) : a \in AgentIds}, extra \in HeaderArgs,
          method \in Methods :
        LET aid == IF IsSome(hdr) THEN Unwrap(hdr) ELSE ""
            headers == (IF IsSome(hdr) THEN <<Header(AGENT_ID_HEADER, <<aid>>)>>
                        ELSE <<>>) \o extra
            idresp == validate_agent_response(agents, aid)
        IN  \E idnet \in IF IsSome(hdr) THEN NetOutcomes ELSE {"ok"} :
            LET identity == identity_client_validate_agent(idnet, idresp)
                to_policy == intercept_stages(headers, method, identity,
                                 Err(<<>>), "send_err").policy_calls = 1
            IN  \E polnet \in IF to_policy THEN NetOutcomes ELSE {"ok"},
                   answer \in IF to_policy THEN PolicyAnswers ELSE {NoAnswer} :
                LET policy == policy_client_evaluate(polnet, answer)
                    to_upstream == intercept_stages(headers, method, identity,
                                       policy, "send_err").upstream_calls = 1
                    emits == intercept_stages(headers, method, identity,
                                 policy, "send_err").receipts # <<>>
                IN  \E up \in IF to_upstream THEN UpstreamOutcomes
                              ELSE {"send_err"},
                       rs \in IF emits THEN ReceiptStoreOutcomes ELSE {"ok"} :
                    LET reply == intercept(headers, method, identity, policy,
                                           up, rs)
                    IN  gw' = [reply |-> reply,
                               headers |-> headers,
                               method |-> method,
                               idnet |-> IF reply.identity_calls = 1
                                         THEN idnet ELSE "",
                               idresp |-> IF reply.identity_calls = 1
                                             /\ idnet = "ok"
                                          THEN idresp ELSE NoResponse,
                               polnet |-> IF reply.policy_calls = 1
                                          THEN polnet ELSE "",
                               answer |-> IF reply.policy_calls = 1
                                             /\ polnet = "ok"
                                          THEN answer ELSE NoAnswer,
                               up |-> IF reply.upstream_calls = 1
                                      THEN up ELSE "",
                               rs |-> IF reply.receipts # <<>> THEN rs ELSE "",
                               after_revoke |-> aid \in revokedOk]
    /\ UNCHANGED <<regVars, pe, queryVars, storeVars, trustVars, taskVars, sinkVars>>

-----------------------------------------------------------------------------
\* Policy engine

\* serde_json::Value
JsonNull == [t |-> "null", v |-> 0]
JsonBool(b) == [t |-> "bool", v |-> b]
JsonString(x) == [t |-> "string", v |-> x]
JsonNumber(n) == [t |-> "number", v |-> n]
JsonArray(a) == [t |-> "array", v |-> a]
JsonObject(f) == [t |-> "object", v |-> f]

\* Value::get(key), Value::as_bool, Value::as_str, Value::as_f64
json_get(j, key) ==
    IF j.t = "object" /\ key \in DOMAIN j.v THEN Some(j.v[key]) ELSE None
as_bool(j) == IF j.t = "bool" THEN Some(j.v) ELSE None
as_str(j) == IF j.t = "string" THEN Some(j.v) ELSE None
as_f64(j) == IF j.t = "number" THEN Some(j.v) ELSE None
as_array(j) == IF j.t = "array" THEN Some(j.v) ELSE None

\* Option::and_then and Option::unwrap_or
and_then(o, f(_)) == IF IsSome(o) THEN f(Unwrap(o)) ELSE None
unwrap_or(o, d) == IF IsSome(o) THEN Unwrap(o) ELSE d

\* the statuses the external evaluator answers with
OpaStatuses == {200, 500}

\* the `result` members of the bodies the evaluator answers the v1 query with
OpaResultsV1 ==
    {None, Some(JsonBool(TRUE)), Some(JsonBool(FALSE)),
     Some(JsonString("true")), Some(JsonNumber(1)), Some(JsonNull)}

\* an answer of the evaluator: a send error, or a status and a body that is
\* JSON (Some) or not
OpaAnswer(status, json) == [net |-> "ok", status |-> status, json |-> json]
OpaNetError == [net |-> "neterr", status |-> 0, json |-> None]

OpaBody(result) ==
    JsonObject(IF IsSome(result) THEN [k \in {"result"} |-> Unwrap(result)]
               ELSE [k \in {} |-> JsonNull])

OpaAnswersV1 ==
    {OpaNetError} \cup
    {OpaAnswer(st, None) : st \in OpaStatuses} \cup
    {OpaAnswer(st, Some(OpaBody(r))) : st \in OpaStatuses, r \in OpaResultsV1}

\* a variant of OPAEngine::evaluate that reads a result of any type as allow
OPAEngine_evaluate_truthy(opa) ==
    IF opa.net = "neterr" THEN Err(<<"error sending request">>)
    ELSE IF ~(opa.status \in 200..299)
    THEN Ok([allowed |-> FALSE,
             reason |-> <<"OPA evaluation failed: ", opa.status>>])
    ELSE IF ~IsSome(opa.json) THEN Err(<<"error decoding response body">>)
    ELSE LET result == json_get(Unwrap(opa.json), "result")
             allowed == IsSome(result) /\ Unwrap(result) # JsonBool(FALSE)
                        /\ Unwrap(result) # JsonNull
         IN  Ok([allowed |-> allowed,
                 reason |-> IF allowed THEN <<"Policy allows request">>
                            ELSE <<"Policy denies request">>])

\* OPAEngine::evaluate
OPAEngine_evaluate(opa) ==
    IF opa.net = "neterr" THEN Err(<<"error sending request">>)
    ELSE IF ~(opa.status \in 200..299)
    THEN Ok([allowed |-> FALSE,
             reason |-> <<"OPA evaluation failed: ", opa.status>>])
    ELSE IF ~IsSome(opa.json) THEN Err(<<"error decoding response body">>)
    ELSE LET allowed == unwrap_or(and_then(json_get(Unwrap(opa.json), "result"),
                                           as_bool), FALSE)
         IN  Ok([allowed |-> allowed,
                 reason |-> IF allowed THEN <<"Policy allows request">>
                            ELSE <<"Policy denies request">>])

\* api::evaluate_policy: 200 with the engine's response, or 500
evaluate_policy(opa) ==
    LET response == OPAEngine_evaluate(opa)
    IN  IF response.ok
        THEN [status |-> 200, body |-> Unwrap(response.value)]
        ELSE [status |-> 500,
              body |-> [error |-> "policy_evaluation_error",
                        message |-> response.err]]

PeNone == [op |-> "none", trust_score |-> None, opa |-> OpaNetError,
           response |-> [status |-> 0, body |-> <<>>]]

EvaluatePolicy ==
    /\ \E opa \in OpaAnswersV1 :
        pe' = [op |-> "evaluate", trust_score |-> None, opa |-> opa,
               response |-> evaluate_policy(opa)]
    /\ UNCHANGED <<regVars, gw, queryVars, storeVars, trustVars, taskVars, sinkVars>>

\* the TrustContext a v2 request carries for its agent, scores in hundredths
TrustContextArgs ==
    {None} \cup
    {Some([composite_score |-> c, threshold |-> Some(30),
           threshold_action |-> Some("block")]) : c \in {20, 30, 80}}

\* a JSON object with the members that are given
JsonDocument(members) ==
    JsonObject([k \in {m \in DOMAIN members : IsSome(members[m])} |->
                   Unwrap(members[k])])

TrustLowWarning ==
    JsonDocument([code |-> Some(JsonString(<<"T", "R", "U", "S", "T", "_", "L", "O", "W">>)),
                  message |-> Some(JsonString("trust score is low")),
                  severity |-> Some(JsonString("warning"))])

\* the `result` members of the bodies the evaluator answers the v2 query with
OpaResultsV2 ==
    {None, Some(JsonNull)} \cup
    {Some(JsonDocument([allow |-> a, trust_action |-> ta,
                        applied_threshold |-> th, warnings |-> w])) :
        a \in {None, Some(JsonBool(TRUE)), Some(JsonBool(FALSE))},
        ta \in {None, Some(JsonString("block")), Some(JsonString("warn"))},
        th \in {None, Some(JsonNumber(50))},
        w \in {None, Some(JsonArray(<<TrustLowWarning>>))}}

OpaAnswersV2 ==
    {OpaNetError} \cup
    {OpaAnswer(st, None) : st \in OpaStatuses} \cup
    {OpaAnswer(st, Some(OpaBody(r))) : st \in OpaStatuses, r \in OpaResultsV2}

\* the filter_map over the warnings array
RECURSIVE parse_warnings(_)
parse_warnings(arr) ==
    IF arr = <<>> THEN <<>>
    ELSE LET w == arr[1]
             code == and_then(json_get(w, "code"), as_str)
             message == and_then(json_get(w, "message"), as_str)
             severity == and_then(json_get(w, "severity"), as_str)
         IN  (IF IsSome(code) /\ IsSome(message) /\ IsSome(json_get(w, "severity"))
              THEN <<[code |-> Unwrap(code), message |-> Unwrap(message),
                      severity |-> unwrap_or(severity, "info")]>>
              ELSE <<>>) \o parse_warnings(Tail(arr))

\* OPAEngine::evaluate_v2, result interpretation: request.agent.trust_score
\* mapped to a TrustEvaluationResult
trust_evaluation_of(trust_score, applied_threshold, trust_action) ==
    IF ~IsSome(trust_score) THEN None
    ELSE Some([trust_score_checked |-> TRUE,
               trust_score |-> Some(Unwrap(trust_score).composite_score),
               threshold |-> applied_threshold,
               passed |-> Unwrap(trust_score).composite_score >= applied_threshold,
               action_taken |-> trust_action])

\* OPAEngine::evaluate_v2
OPAEngine_evaluate_v2(trust_score, opa) ==
    IF opa.net = "neterr" THEN Err(<<"error sending request">>)
    ELSE IF ~(opa.status \in 200..299)
    THEN Ok([allowed |-> FALSE,
             reason |-> <<"OPA evaluation failed: ", opa.status>>,
             trust_evaluation |-> None,
             tenant_policy_applied |-> None,
             warnings |-> <<>>])
    ELSE IF ~IsSome(opa.json) THEN Err(<<"error decoding response body">>)
    ELSE LET result == unwrap_or(json_get(Unwrap(opa.json), "result"), JsonNull)
             allowed == unwrap_or(and_then(json_get(result, "allow"), as_bool),
                                  FALSE)
             trust_action == and_then(json_get(result, "trust_action"), as_str)
             applied_threshold ==
                 unwrap_or(and_then(json_get(result, "applied_threshold"),
                                    as_f64), 30)
             applied_tenant_policy ==
                 and_then(json_get(result, "applied_tenant_policy"), as_str)
             warnings == unwrap_or(and_then(json_get(result, "warnings"),
                                            as_array), <<>>)
         IN  Ok([allowed |-> allowed,
                 reason |-> IF allowed THEN <<"Policy allows request">>
                            ELSE IF trust_action = Some("block")
                            THEN <<"Trust score below minimum threshold">>
                            ELSE <<"Policy denies request">>,
                 trust_evaluation |->
                     trust_evaluation_of(trust_score, applied_threshold,
                                         trust_action),
                 tenant_policy_applied |-> applied_tenant_policy,
                 warnings |-> parse_warnings(warnings)])

\* api::evaluate_policy_v2: 200 with the engine's response, or 500
evaluate_policy_v2(trust_score, opa) ==
    LET response == OPAEngine_evaluate_v2(trust_score, opa)
    IN  IF response.ok
        THEN [status |-> 200, body |-> Unwrap(response.value)]
        ELSE [status |-> 500,
              body |-> [error |-> "policy_evaluation_error",
                        message |-> response.err]]

EvaluatePolicyV2 ==
    /\ \E trust_score \in TrustContextArgs, opa \in OpaAnswersV2 :
        pe' = [op |-> "evaluate_v2", trust_score |-> trust_score, opa |-> opa,
               response |-> evaluate_policy_v2(trust_score, opa)]
    /\ UNCHANGED <<regVars, gw, queryVars, storeVars, trustVars, taskVars, sinkVars>>

-----------------------------------------------------------------------------
\* Receipt store

\* Bound of the model: receipts stored
MaxReceipts == 2

TraceArgs == {None, Some(<<"req", 1>>)}

\* composite scores a caller may send, in hundredths (f64 with two decimals)
ScoreArgs == {20, 80}
\* Decimal::try_from(f64)
decimal_from_f64(hundredths) == Frac(hundredths, 100)

\* warning codes, as character sequences
TRUST_LOW == <<"T", "R", "U", "S", "T", "_", "L", "O", "W">>
RATE_TRUST == <<"R", "A", "T", "E", "_", "T", "R", "U", "S", "T", "_">>
WarningArgs == {<<>>, <<[code |-> TRUST_LOW]>>, <<[code |-> RATE_TRUST]>>}

TrustEvaluationArgs ==
    {None} \cup
    {Some([trust_score_checked |-> TRUE, trust_score |-> None, threshold |-> 30,
           passed |-> p, action_taken |-> None]) : p \in BOOLEAN}

TheEventSource(version) ==
    [system |-> "pathwell", service |-> "proxy-gateway", version |-> version]
TheRequest == [method |-> "GET", path |-> "/api/foo", body_hash |-> None]

\* the ReceiptRequest bodies of POST /v1/receipts
ReceiptRequests ==
    {[trace_id |-> t, correlation_id |-> None, span_id |-> None,
      parent_span_id |-> None, agent_id |-> "agent1", event_type |-> None,
      event_source |-> None, request |-> TheRequest,
      policy_result |-> [allowed |-> a, policy_version |-> "v1"],
      identity_result |-> [valid |-> v, developer_id |-> 1,
                           enterprise_id |-> None],
      metadata |-> None] : t \in TraceArgs, a \in BOOLEAN, v \in BOOLEAN}

\* the ReceiptRequestV2 values given to store_receipt_v2: warnings come only
\* with a trust evaluation, and a request that carries one is allowed exactly
\* when the evaluation passed
ReceiptRequestsV2 ==
    {r \in
     {[trace_id |-> t, correlation_id |-> None, span_id |-> None,
      parent_span_id |-> None, agent_id |-> "agent1", event_type |-> None,
      event_source |-> None, request |-> TheRequest,
      policy_result |-> [allowed |-> a, policy_version |-> "v2",
                         trust_evaluation |-> te,
                         tenant_policy_applied |-> None, warnings |-> w],
      identity_result |-> [valid |-> TRUE, developer_id |-> 1,
                           enterprise_id |-> None, tenant_id |-> None,
                           tenant_hierarchy_path |-> None,
                           trust_score |-> ts, attribution |-> None],
      metadata |-> None] :
        t \in TraceArgs, a \in BOOLEAN, te \in TrustEvaluationArgs,
        w \in WarningArgs,
        ts \in {None} \cup {Some([composite_score |-> c, threshold_applied |-> 30,
                                  trust_action |-> None]) : c \in ScoreArgs}} :
     IF IsSome(r.policy_result.trust_evaluation)
     THEN r.policy_result.allowed = Unwrap(r.policy_result.trust_evaluation).passed
     ELSE r.policy_result.warnings = <<>>}

\* DateTime::to_rfc3339
to_rfc3339(t) == <<"rfc3339", t>>

\* Sha256 of the serialised value, hex encoded
sha256_hex(json) == <<"sha256", json>>

\* a variant of Receipt::calculate_hash that leaves the chain link out
calculate_hash_without_previous(r) ==
    sha256_hex([receipt_id |-> r.receipt_id,
                trace_id |-> r.trace_id,
                correlation_id |-> r.correlation_id,
                span_id |-> r.span_id,
                parent_span_id |-> r.parent_span_id,
                timestamp |-> to_rfc3339(r.timestamp),
                agent_id |-> r.agent_id,
                event_type |-> r.event_type,
                event_source |-> r.event_source,
                request |-> r.request,
                policy_result |-> r.policy_result,
                identity_result |-> r.identity_result,
                metadata |-> r.metadata])

\* Receipt::calculate_hash
calculate_hash(r) ==
    sha256_hex([receipt_id |-> r.receipt_id,
                trace_id |-> r.trace_id,
                correlation_id |-> r.correlation_id,
                span_id |-> r.span_id,
                parent_span_id |-> r.parent_span_id,
                timestamp |-> to_rfc3339(r.timestamp),
                agent_id |-> r.agent_id,
                event_type |-> r.event_type,
                event_source |-> r.event_source,
                request |-> r.request,
                policy_result |-> r.policy_result,
                identity_result |-> r.identity_result,
                metadata |-> r.metadata,
                previous_receipt_hash |-> r.previous_receipt_hash])

\* Receipt::verify_chain
verify_chain(r, previous_receipt) ==
    IF /\ IsSome(r.previous_receipt_hash)
       /\ Unwrap(r.previous_receipt_hash) # previous_receipt.receipt_hash
    THEN FALSE
    ELSE calculate_hash(r) = r.receipt_hash

\* ReceiptV2::calculate_hash
calculate_hash_v2(r) ==
    sha256_hex([receipt_id |-> r.receipt_id,
                trace_id |-> r.trace_id,
                correlation_id |-> r.correlation_id,
                span_id |-> r.span_id,
                parent_span_id |-> r.parent_span_id,
                timestamp |-> to_rfc3339(r.timestamp),
                agent_id |-> r.agent_id,
                event_type |-> r.event_type,
                event_source |-> r.event_source,
                request |-> r.request,
                policy_result |-> r.policy_result,
                identity_result |-> r.identity_result,
                metadata |-> r.metadata,
                previous_receipt_hash |-> r.previous_receipt_hash,
                tenant_id |-> r.tenant_id,
                trust_snapshot |-> r.trust_snapshot,
                attribution_snapshot |-> r.attribution_snapshot])

\* Receipt::new; f holds the arguments, receipt_id and timestamp what
\* Uuid::new_v4() and Utc::now() give
Receipt_new(f, receipt_id, timestamp) ==
    LET receipt == [receipt_id |-> receipt_id,
                    trace_id |-> f.trace_id,
                    correlation_id |-> f.correlation_id,
                    span_id |-> f.span_id,
                    parent_span_id |-> f.parent_span_id,
                    timestamp |-> timestamp,
                    agent_id |-> f.agent_id,
                    event_type |-> f.event_type,
                    event_source |-> f.event_source,
                    request |-> f.request,
                    policy_result |-> f.policy_result,
                    identity_result |-> f.identity_result,
                    metadata |-> f.metadata,
                    receipt_hash |-> "",
                    previous_receipt_hash |-> f.previous_receipt_hash]
    IN  [receipt EXCEPT !.receipt_hash = calculate_hash(receipt)]

\* ReceiptV2::new
ReceiptV2_new(f, receipt_id, timestamp) ==
    LET receipt == [receipt_id |-> receipt_id,
                    trace_id |-> f.trace_id,
                    correlation_id |-> f.correlation_id,
                    span_id |-> f.span_id,
                    parent_span_id |-> f.parent_span_id,
                    timestamp |-> timestamp,
                    agent_id |-> f.agent_id,
                    event_type |-> f.event_type,
                    event_source |-> f.event_source,
                    request |-> f.request,
                    policy_result |-> f.policy_result,
                    identity_result |-> f.identity_result,
                    metadata |-> f.metadata,
                    receipt_hash |-> "",
                    previous_receipt_hash |-> f.previous_receipt_hash,
                    tenant_id |-> f.identity_result.tenant_id,
                    trust_snapshot |-> f.identity_result.trust_score,
                    attribution_snapshot |-> f.identity_result.attribution]
    IN  [receipt EXCEPT !.receipt_hash = calculate_hash_v2(receipt)]

\* whether a stored receipt is a ReceiptV2
IsV2(r) == "trust_snapshot" \in DOMAIN r

EmptyDb == [receipts |-> <<>>, traces |-> <<>>, receipt_events |-> <<>>,
            trust_events |-> <<>>]

\* db::get_latest_receipt_hash: ORDER BY timestamp DESC LIMIT 1
get_latest_receipt_hash(d) ==
    IF d.receipts = <<>> THEN None
    ELSE Some(d.receipts[CHOOSE i \in 1..Len(d.receipts) :
                  \A j \in 1..Len(d.receipts) :
                      d.receipts[j].timestamp <= d.receipts[i].timestamp].receipt_hash)

\* a variant of db::store_receipt_hash that binds the id where the hash goes
store_receipt_hash_of_id(d, receipt_id, receipt_hash, now) ==
    IF Rows(d.receipts, LAMBDA r : r.receipt_id = receipt_id) # {} THEN d
    ELSE [d EXCEPT !.receipts = Append(@,
             [receipt_id |-> receipt_id, receipt_hash |-> sha256_hex(receipt_id),
              timestamp |-> now])]

\* db::store_receipt_hash: ON CONFLICT (receipt_id) DO NOTHING
store_receipt_hash(d, receipt_id, receipt_hash, now) ==
    IF Rows(d.receipts, LAMBDA r : r.receipt_id = receipt_id) # {} THEN d
    ELSE [d EXCEPT !.receipts = Append(@,
             [receipt_id |-> receipt_id, receipt_hash |-> receipt_hash,
              timestamp |-> now])]

trace_rows(d, trace_id) == Rows(d.traces, LAMBDA t : t.trace_id = trace_id)

\* a variant of db::upsert_trace that creates no row
upsert_trace_update_only(d, receipt) == d

\* a variant of db::upsert_trace that inserts event_count 1
upsert_trace_counted(d, receipt) ==
    IF trace_rows(d, receipt.trace_id) # {} THEN d
    ELSE [d EXCEPT !.traces = Append(@,
             [trace_id |-> receipt.trace_id,
              correlation_id |-> receipt.correlation_id,
              started_at |-> receipt.timestamp,
              last_event_at |-> receipt.timestamp,
              status |-> "active",
              event_count |-> 1,
              policy_deny_count |-> 0,
              initiating_agent_id |-> receipt.agent_id,
              tenant_id |-> None,
              min_trust_score |-> None,
              avg_trust_score |-> None,
              trust_violations |-> None])]

\* db::upsert_trace: ON CONFLICT (trace_id) DO NOTHING
upsert_trace(d, receipt) ==
    IF trace_rows(d, receipt.trace_id) # {} THEN d
    ELSE [d EXCEPT !.traces = Append(@,
             [trace_id |-> receipt.trace_id,
              correlation_id |-> receipt.correlation_id,
              started_at |-> receipt.timestamp,
              last_event_at |-> receipt.timestamp,
              status |-> "active",
              event_count |-> 0,
              policy_deny_count |-> 0,
              initiating_agent_id |-> receipt.agent_id,
              tenant_id |-> None,
              min_trust_score |-> None,
              avg_trust_score |-> None,
              trust_violations |-> None])]

\* a variant of LEAST that keeps the newest value
least_latest(x, y) == IF IsSome(y) THEN y ELSE x

\* SQL LEAST: NULL arguments are ignored
least(x, y) ==
    IF ~IsSome(x) THEN y
    ELSE IF ~IsSome(y) THEN x
    ELSE IF FracLeq(Unwrap(x), Unwrap(y)) THEN x ELSE y

\* SQL COALESCE(x, 0)
coalesce0(x) == IF IsSome(x) THEN Unwrap(x) ELSE Frac(0, 1)

\* (COALESCE(avg, 0) * event_count + COALESCE(new, 0)) / (event_count + 1)
running_avg(avg, event_count, new) ==
    LET a == coalesce0(avg)
        b == coalesce0(new)
    IN  Some(Frac(a.n * event_count * b.d + b.n * a.d,
                  a.d * b.d * (event_count + 1)))

\* db::upsert_trace_v2
upsert_trace_v2(d, receipt) ==
    LET trust_score ==
            IF IsSome(receipt.trust_snapshot)
            THEN Some(decimal_from_f64(Unwrap(receipt.trust_snapshot).composite_score))
            ELSE None
        hit == trace_rows(d, receipt.trace_id)
    IN  IF hit # {}
        THEN [d EXCEPT !.traces = [i \in 1..Len(@) |->
                 IF i \in hit
                 THEN [@[i] EXCEPT
                          !.last_event_at = receipt.timestamp,
                          !.min_trust_score = least(@, trust_score),
                          !.avg_trust_score =
                              running_avg(@, d.traces[i].event_count, trust_score)]
                 ELSE @[i]]]
        ELSE [d EXCEPT !.traces = Append(@,
                 [trace_id |-> receipt.trace_id,
                  correlation_id |-> receipt.correlation_id,
                  started_at |-> receipt.timestamp,
                  last_event_at |-> receipt.timestamp,
                  status |-> "active",
                  event_count |-> 0,
                  policy_deny_count |-> 0,
                  initiating_agent_id |-> receipt.agent_id,
                  tenant_id |-> receipt.tenant_id,
                  min_trust_score |-> trust_score,
                  avg_trust_score |-> trust_score,
                  trust_violations |-> Some(0)])]

\* the trigger on receipt_events that maintains the trace's counters
trace_event_trigger(d, receipt) ==
    [d EXCEPT !.traces = [i \in 1..Len(@) |->
        IF @[i].trace_id = receipt.trace_id
        THEN [@[i] EXCEPT
                 !.event_count = @ + 1,
                 !.policy_deny_count =
                     IF receipt.policy_result.allowed THEN @ ELSE @ + 1]
        ELSE @[i]]]

\* db::store_receipt_event / db::store_receipt_event_v2
store_receipt_event(d, receipt) ==
    trace_event_trigger([d EXCEPT !.receipt_events = Append(@, receipt)], receipt)

\* the event type store_receipt_v2 gives a trust event
trust_event_type(trust_eval, warnings) ==
    IF ~trust_eval.passed THEN "threshold_violation"
    ELSE IF \E i \in 1..Len(warnings) :
                starts_with(warnings[i].code, <<"T", "R", "U", "S", "T", "_">>)
    THEN "trust_warning"
    ELSE "score_checked"

\* db::store_trust_event
store_trust_event(d, event) == [d EXCEPT !.trust_events = Append(@, event)]

\* a variant of db::increment_trust_violations without the WHERE clause
increment_trust_violations_everywhere(d, trace_id) ==
    [d EXCEPT !.traces = [i \in 1..Len(@) |->
        [@[i] EXCEPT !.trust_violations =
            Some((IF IsSome(@) THEN Unwrap(@) ELSE 0) + 1)]]]

\* db::increment_trust_violations
increment_trust_violations(d, trace_id) ==
    [d EXCEPT !.traces = [i \in 1..Len(@) |->
        IF @[i].trace_id = trace_id
        THEN [@[i] EXCEPT !.trust_violations =
                 Some((IF IsSome(@) THEN Unwrap(@) ELSE 0) + 1)]
        ELSE @[i]]]

\* ReceiptStore::store_receipt: the receipt, the store after the call and the
\* numbers of uuids and clock readings used
store_receipt(d, pool, request, u, now) ==
    LET previous_hash == IF pool THEN get_latest_receipt_hash(d) ELSE None
        nt == IF IsSome(request.trace_id) THEN 0 ELSE 1
        trace_id == IF IsSome(request.trace_id) THEN Unwrap(request.trace_id)
                    ELSE new_v4(u + 1)
        ns == IF IsSome(request.span_id) THEN 0 ELSE 1
        span_id == IF IsSome(request.span_id) THEN Unwrap(request.span_id)
                   ELSE new_v4(u + nt + 1)
        receipt == Receipt_new(
            [request EXCEPT
                !.trace_id = trace_id,
                !.span_id = span_id,
                !.event_type = IF IsSome(request.event_type)
                               THEN Unwrap(request.event_type)
                               ELSE "gateway_request",
                !.event_source = IF IsSome(request.event_source)
                                 THEN Unwrap(request.event_source)
                                 ELSE TheEventSource("1.0.0")]
              @@ [previous_receipt_hash |-> previous_hash],
            new_v4(u + nt + ns + 1), now + 1)
        d1 == upsert_trace(d, receipt)
        d2 == store_receipt_event(d1, receipt)
        d3 == store_receipt_hash(d2, receipt.receipt_id, receipt.receipt_hash,
                                 now + 2)
    IN  [receipt |-> receipt,
         db |-> IF pool THEN d3 ELSE d,
         uuids |-> u + nt + ns + 1,
         clock |-> now + 2]

\* ReceiptStore::store_receipt_v2
store_receipt_v2(d, pool, request, u, now) ==
    LET previous_hash == IF pool THEN get_latest_receipt_hash(d) ELSE None
        nt == IF IsSome(request.trace_id) THEN 0 ELSE 1
        trace_id == IF IsSome(request.trace_id) THEN Unwrap(request.trace_id)
                    ELSE new_v4(u + 1)
        span_id == new_v4(u + nt + 1)
        receipt == ReceiptV2_new(
            [request EXCEPT
                !.trace_id = trace_id,
                !.span_id = span_id,
                !.event_type = "gateway_request",
                !.event_source = TheEventSource("2.0.0")]
              @@ [previous_receipt_hash |-> previous_hash],
            new_v4(u + nt + 2), now + 1)
        d1 == upsert_trace_v2(d, receipt)
        d2 == store_receipt_event(d1, receipt)
        d3 == store_receipt_hash(d2, receipt.receipt_id, receipt.receipt_hash,
                                 now + 2)
        te == request.policy_result.trust_evaluation
        trust_eval == Unwrap(te)
        trust_event ==
            [event_id |-> new_v4(u + nt + 3),
             trace_id |-> trace_id,
             agent_id |-> request.agent_id,
             event_type |-> trust_event_type(trust_eval,
                                             request.policy_result.warnings),
             timestamp |-> now + 3,
             previous_score |-> None,
             new_score |-> IF IsSome(trust_eval.trust_score)
                           THEN Unwrap(trust_eval.trust_score) ELSE 50,
             threshold |-> trust_eval.threshold,
             passed |-> trust_eval.passed,
             action_taken |-> trust_eval.action_taken]
        d4 == IF ~IsSome(te) THEN d3 ELSE store_trust_event(d3, trust_event)
        d5 == IF IsSome(te) /\ ~trust_eval.passed
              THEN increment_trust_violations(d4, trace_id) ELSE d4
    IN  [receipt |-> receipt,
         db |-> IF pool THEN d5 ELSE d,
         uuids |-> u + nt + 2 + (IF pool /\ IsSome(te) THEN 1 ELSE 0),
         clock |-> now + 2 + (IF pool /\ IsSome(te) THEN 1 ELSE 0)]

\* serde_json::to_string(&receipt)
to_string(receipt) == <<"json", receipt>>

\* KafkaProducer::send_receipt answering Ok: the payload is on the topic
send_receipt(topic, receipt_json) == Append(topic, receipt_json)

\* clock readings per second of DateTime::timestamp()
TicksPerSecond == 4

\* the object key of S3Archiver::archive_receipt: the hour partition and
\* receipt_<now.timestamp()>.json
archive_key(now) ==
    <<"receipts/", (now \div TicksPerSecond) \div 3600, "/receipt_",
      now \div TicksPerSecond, ".json">>

\* S3Archiver::archive_receipt answering Ok: put_object stores the body under
\* the key, in place of an object that has the key already
archive_receipt(bucket, receipt_json, now) ==
    LET object == [key |-> archive_key(now), body |-> receipt_json]
    IN  IF \E i \in 1..Len(bucket) : bucket[i].key = object.key
        THEN [i \in 1..Len(bucket) |->
                 IF bucket[i].key = object.key THEN object ELSE bucket[i]]
        ELSE Append(bucket, object)

\* a variant of the `if let Err(e) = ...` around the two sinks that returns
\* the error as `?` does
best_effort_propagating(ok) == ok

\* `if let Err(e) = ... { tracing::warn!(...) }`: whether the call goes on
\* after a sink answered Ok (ok) or Err
best_effort(ok) == TRUE

\* api::store_receipt: the StoreReceiptResponse
StoreReceiptResponse(op, receipt) ==
    [op |-> op, receipt_id |-> receipt.receipt_id,
     receipt_hash |-> receipt.receipt_hash, trace_id |-> receipt.trace_id,
     stored |-> TRUE]

StoreReceiptAmong(requests) ==
    \E request \in requests :
        LET res == store_receipt(db, db_pool, request, uuids, clock)
        IN  /\ Len(db.receipt_events) < MaxReceipts
            /\ db' = res.db
            /\ uuids' = res.uuids
            /\ clock' = res.clock
            /\ kafka' = send_receipt(kafka, to_string(res.receipt))
            /\ s3' = archive_receipt(s3, to_string(res.receipt), res.clock)
            /\ rsResp' = StoreReceiptResponse("store_receipt", res.receipt)
            /\ UNCHANGED <<regVars, gw, pe, queryVars, db_pool, trustVars, taskVars>>

StoreReceipt == StoreReceiptAmong(ReceiptRequests)

\* the body of the POST /v1/receipts that ReceiptClient::store_receipt
\* spawns, as the receipt store's ReceiptRequest reads it
receipt_request_json(receipt, method) ==
    [trace_id |-> Some(receipt.trace_id),
     correlation_id |-> receipt.correlation_id,
     span_id |-> Some(receipt.span_id),
     parent_span_id |-> None,
     agent_id |-> receipt.agent_id,
     event_type |-> Some("gateway_request"),
     event_source |-> Some(TheEventSource("CARGO_PKG_VERSION")),
     request |-> [method |-> method, path |-> "/api/foo", body_hash |-> None],
     policy_result |-> receipt.policy_result,
     identity_result |-> receipt.identity_result,
     metadata |-> receipt.metadata]

\* the POST spawned by ReceiptClient::store_receipt reaches the receipt
\* store's store_receipt handler
GatewayReceiptPosted ==
    /\ gw.reply.receipts # <<>>
    /\ gw.rs = "ok"
    /\ rsResp.op = "none"
    /\ LET request == receipt_request_json(gw.reply.receipts[1], gw.method)
           res == store_receipt(db, db_pool, request, uuids, clock)
       IN  /\ db' = res.db
           /\ uuids' = res.uuids
           /\ clock' = res.clock
           /\ kafka' = send_receipt(kafka, to_string(res.receipt))
           /\ s3' = archive_receipt(s3, to_string(res.receipt), res.clock)
           /\ rsResp' = StoreReceiptResponse("store_receipt", res.receipt)
    /\ UNCHANGED <<regVars, gw, pe, queryVars, db_pool, trustVars, taskVars>>

StoreReceiptV2 ==
    \E request \in ReceiptRequestsV2 :
        LET res == store_receipt_v2(db, db_pool, request, uuids, clock)
        IN  /\ Len(db.receipt_events) < MaxReceipts
            /\ db' = res.db
            /\ uuids' = res.uuids
            /\ clock' = res.clock
            /\ kafka' = send_receipt(kafka, to_string(res.receipt))
            /\ s3' = archive_receipt(s3, to_string(res.receipt), res.clock)
            /\ rsResp' = StoreReceiptResponse("store_receipt_v2", res.receipt)
            /\ UNCHANGED <<regVars, gw, pe, queryVars, db_pool, trustVars, taskVars>>

-----------------------------------------------------------------------------
\* ReceiptStore::store_receipt and store_receipt_v2 statement by statement:
\* every db call is an await whose Err ends the call through `?`, and the
\* handlers of two requests run as two tasks on the same pool.

MaxCalls == 2

TaskIdle == [pc |-> "idle"]

\* the requests the tasks are given: v1 bodies, and v2 bodies that name
\* their trace and carry a trust evaluation
TaskRequests ==
    {r \in ReceiptRequests :
        r.policy_result.allowed /\ r.identity_result.valid} \cup
    {r \in ReceiptRequestsV2 :
        /\ IsSome(r.trace_id)
        /\ IsSome(r.policy_result.trust_evaluation)
        /\ r.policy_result.warnings = <<>>
        /\ ~IsSome(r.identity_result.trust_score)}

IsRequestV2(request) == "trust_evaluation" \in DOMAIN request.policy_result

\* trace context and Receipt::new / ReceiptV2::new of store_receipt(_v2),
\* given the previous hash the lookup returned
materialise(request, previous_hash, u, now) ==
    LET nt == IF IsSome(request.trace_id) THEN 0 ELSE 1
        trace_id == IF IsSome(request.trace_id) THEN Unwrap(request.trace_id)
                    ELSE new_v4(u + 1)
        f == [request EXCEPT
                 !.trace_id = trace_id,
                 !.span_id = new_v4(u + nt + 1),
                 !.event_type = "gateway_request",
                 !.event_source = TheEventSource(IF IsRequestV2(request)
                                                 THEN "2.0.0" ELSE "1.0.0")]
               @@ [previous_receipt_hash |-> previous_hash]
    IN  [receipt |-> IF IsRequestV2(request)
                     THEN ReceiptV2_new(f, new_v4(u + nt + 2), now + 1)
                     ELSE Receipt_new(f, new_v4(u + nt + 2), now + 1),
         uuids |-> u + nt + 2,
         clock |-> now + 1]

\* the TrustEvent store_receipt_v2 builds from the request's trust evaluation
TrustEvent_of(request, trace_id, u, now) ==
    LET trust_eval == Unwrap(request.policy_result.trust_evaluation)
    IN  [event_id |-> new_v4(u + 1),
         trace_id |-> trace_id,
         agent_id |-> request.agent_id,
         event_type |-> trust_event_type(trust_eval,
                                         request.policy_result.warnings),
         timestamp |-> now + 1,
         previous_score |-> None,
         new_score |-> IF IsSome(trust_eval.trust_score)
                       THEN Unwrap(trust_eval.trust_score) ELSE 50,
         threshold |-> trust_eval.threshold,
         passed |-> trust_eval.passed,
         action_taken |-> trust_eval.action_taken]

\* the statement that follows `pc` in the call that holds `receipt`
statement_after(pc, request) ==
    CASE pc = "upsert_trace" -> "store_receipt_event"
      [] pc = "store_receipt_event" -> "store_receipt_hash"
      [] pc = "store_receipt_hash" ->
             IF IsRequestV2(request)
                /\ IsSome(request.policy_result.trust_evaluation)
             THEN "store_trust_event" ELSE "send_receipt"
      [] pc = "store_trust_event" ->
             IF ~Unwrap(request.policy_result.trust_evaluation).passed
             THEN "increment_trust_violations" ELSE "send_receipt"
      [] pc = "increment_trust_violations" -> "send_receipt"
      [] pc = "send_receipt" -> "archive_receipt"
      [] OTHER -> "idle"

\* the locals of task p and the handler's response once statement `pc` of
\* its call has returned Ok
Proceed(p, pc) ==
    LET next == statement_after(pc, task[p].request)
    IN  /\ task' = [task EXCEPT ![p] =
                       IF next = "idle" THEN TaskIdle ELSE [@ EXCEPT !.pc = next]]
        /\ rsResp' = IF next = "idle"
                     THEN StoreReceiptResponse(
                              IF IsRequestV2(task[p].request)
                              THEN "store_receipt_v2" ELSE "store_receipt",
                              task[p].receipt)
                     ELSE rsResp

\* db::get_latest_receipt_hash(pool).await?, then the receipt is built; a new
\* call takes the first free task slot
TaskBegin(p) ==
    /\ db_pool
    /\ task[p].pc = "idle"
    /\ \A q \in Procs : q < p => task[q].pc # "idle"
    /\ started < MaxCalls
    /\ \E request \in TaskRequests :
        LET m == materialise(request, get_latest_receipt_hash(db), uuids, clock)
        IN  /\ task' = [task EXCEPT ![p] =
                           [pc |-> "upsert_trace", request |-> request,
                            receipt |-> m.receipt]]
            /\ uuids' = m.uuids
            /\ clock' = m.clock
    /\ started' = started + 1
    /\ UNCHANGED <<regVars, gw, pe, queryVars, db, db_pool, rsResp, trustVars, reg,
                   sinkVars>>

\* db::upsert_trace(pool, &receipt).await? / db::upsert_trace_v2
TaskUpsertTrace(p) ==
    /\ task[p].pc = "upsert_trace"
    /\ db' = IF IsRequestV2(task[p].request)
             THEN upsert_trace_v2(db, task[p].receipt)
             ELSE upsert_trace(db, task[p].receipt)
    /\ Proceed(p, "upsert_trace")
    /\ UNCHANGED <<regVars, gw, pe, queryVars, db_pool, clock, uuids, trustVars, started, reg, sinkVars>>

\* db::store_receipt_event(pool, &receipt).await? / db::store_receipt_event_v2
TaskStoreReceiptEvent(p) ==
    /\ task[p].pc = "store_receipt_event"
    /\ db' = store_receipt_event(db, task[p].receipt)
    /\ Proceed(p, "store_receipt_event")
    /\ UNCHANGED <<regVars, gw, pe, queryVars, db_pool, clock, uuids, trustVars, started, reg, sinkVars>>

\* db::store_receipt_hash(pool, receipt.receipt_id, &receipt.receipt_hash).await?
TaskStoreReceiptHash(p) ==
    /\ task[p].pc = "store_receipt_hash"
    /\ db' = store_receipt_hash(db, task[p].receipt.receipt_id,
                                task[p].receipt.receipt_hash, clock + 1)
    /\ clock' = clock + 1
    /\ Proceed(p, "store_receipt_hash")
    /\ UNCHANGED <<regVars, gw, pe, queryVars, db_pool, uuids, trustVars, started, reg, sinkVars>>

\* db::store_trust_event(pool, &trust_event).await?
TaskStoreTrustEvent(p) ==
    /\ task[p].pc = "store_trust_event"
    /\ db' = store_trust_event(db,
                 TrustEvent_of(task[p].request, task[p].receipt.trace_id,
                               uuids, clock))
    /\ uuids' = uuids + 1
    /\ clock' = clock + 1
    /\ Proceed(p, "store_trust_event")
    /\ UNCHANGED <<regVars, gw, pe, queryVars, db_pool, trustVars, started, reg, sinkVars>>

\* db::increment_trust_violations(pool, trace_id).await?
TaskIncrementTrustViolations(p) ==
    /\ task[p].pc = "increment_trust_violations"
    /\ db' = increment_trust_violations(db, task[p].receipt.trace_id)
    /\ Proceed(p, "increment_trust_violations")
    /\ UNCHANGED <<regVars, gw, pe, queryVars, db_pool, clock, uuids, trustVars, started, reg, sinkVars>>

\* the statements of a call that run on the pool
DbStatements ==
    {"upsert_trace", "store_receipt_event", "store_receipt_hash",
     "store_trust_event", "increment_trust_violations"}

\* the locals of task p and the handler's response once a statement of its
\* call has returned Err through `?`
Abort(p) ==
    /\ task' = [task EXCEPT ![p] = TaskIdle]
    /\ rsResp' = [op |-> "failed", receipt_id |-> task[p].receipt.receipt_id,
                  receipt_hash |-> task[p].receipt.receipt_hash,
                  trace_id |-> task[p].receipt.trace_id, stored |-> FALSE]

\* self.kafka.send_receipt(&receipt_json).await, Ok or Err
TaskSendReceipt(p) ==
    /\ task[p].pc = "send_receipt"
    /\ \E ok \in BOOLEAN :
        /\ kafka' = IF ok THEN send_receipt(kafka, to_string(task[p].receipt))
                     ELSE kafka
        /\ IF best_effort(ok) THEN Proceed(p, "send_receipt") ELSE Abort(p)
    /\ UNCHANGED <<regVars, gw, pe, queryVars, db, db_pool, clock, uuids, trustVars, started, reg,
                   s3>>

\* self.s3.archive_receipt(&receipt_json).await, Ok or Err
TaskArchiveReceipt(p) ==
    /\ task[p].pc = "archive_receipt"
    /\ \E ok \in BOOLEAN :
        /\ s3' = IF ok THEN archive_receipt(s3, to_string(task[p].receipt), clock)
                  ELSE s3
        /\ IF best_effort(ok) THEN Proceed(p, "archive_receipt") ELSE Abort(p)
    /\ UNCHANGED <<regVars, gw, pe, queryVars, db, db_pool, clock, uuids, trustVars, started, reg,
                   kafka>>

\* the pending db call of task p returns Err (or its future is dropped): `?`
\* ends the call, what earlier statements wrote stays
TaskFail(p) ==
    /\ task[p].pc \in DbStatements
    /\ Abort(p)
    /\ UNCHANGED <<regVars, gw, pe, queryVars, db, db_pool, clock, uuids, trustVars, started, reg, sinkVars>>

-----------------------------------------------------------------------------

-----------------------------------------------------------------------------
\* Receipt store: external events and the timeline query

MaxExternal == 2

\* the trace ids of external events and of timeline queries
ExternalTraceArgs == {<<"req", 1>>, <<"req", 2>>}
TraceQueryArgs == ExternalTraceArgs \cup {new_v4(1)}

\* timestamps a caller gives an external event, as clock readings
ExternalTimestamps == {1, 4}

TheActor == [actor_type |-> "human", actor_id |-> "u1", display_name |-> None]

\* the ExternalEventRequest bodies of POST /v1/events/external
ExternalEventRequests ==
    {[trace_id |-> t, correlation_id |-> None, event_type |-> "invoice.posted",
      source_system |-> "sap", source_id |-> "4711", timestamp |-> ts,
      actor |-> a, payload |-> JsonNull, metadata |-> None] :
        t \in ExternalTraceArgs, ts \in ExternalTimestamps,
        a \in {Some(TheActor)}}

\* ExternalEvent::from_request
ExternalEvent_from_request(request, event_id, now) ==
    [event_id |-> event_id,
     trace_id |-> request.trace_id,
     correlation_id |-> request.correlation_id,
     event_type |-> request.event_type,
     source_system |-> request.source_system,
     source_id |-> request.source_id,
     timestamp |-> request.timestamp,
     actor |-> request.actor,
     payload |-> request.payload,
     metadata |-> request.metadata,
     created_at |-> now]

\* db::store_external_event: the row inserted into external_events
db_store_external_event(table, event) ==
    Append(table,
        [event_id |-> event.event_id,
         trace_id |-> event.trace_id,
         correlation_id |-> event.correlation_id,
         event_type |-> event.event_type,
         source_system |-> event.source_system,
         source_id |-> event.source_id,
         timestamp |-> event.timestamp,
         actor_type |-> IF IsSome(event.actor)
                        THEN Some(Unwrap(event.actor).actor_type) ELSE None,
         actor_id |-> IF IsSome(event.actor)
                      THEN Some(Unwrap(event.actor).actor_id) ELSE None,
         actor_display_name |-> IF IsSome(event.actor)
                                THEN Unwrap(event.actor).display_name ELSE None,
         payload |-> event.payload,
         metadata |-> event.metadata])

\* ReceiptStore::store_external_event
store_external_event(table, pool, request, u, now) ==
    LET event == ExternalEvent_from_request(request, new_v4(u + 1), now + 1)
    IN  [event |-> event,
         external_events |-> IF pool THEN db_store_external_event(table, event)
                             ELSE table,
         uuids |-> u + 1,
         clock |-> now + 1]

StoreExternalEvent ==
    \E request \in ExternalEventRequests :
        LET res == store_external_event(external_events, db_pool, request,
                                        uuids, clock)
        IN  /\ Len(external_events) < MaxExternal
            /\ external_events' = res.external_events
            /\ uuids' = res.uuids
            /\ clock' = res.clock
            /\ kafka' = send_receipt(kafka, to_string(res.event))
            /\ rsResp' = [op |-> "store_external_event",
                          event_id |-> res.event.event_id,
                          trace_id |-> res.event.trace_id,
                          status |-> "accepted"]
            /\ UNCHANGED <<regVars, gw, pe, db, db_pool, s3, timeline, lookup,
                           trustVars, taskVars>>

\* WHERE trace_id = $1
where_trace_id(rows, trace_id) ==
    SelectSeq(rows, LAMBDA r : r.trace_id = trace_id)

\* ORDER BY timestamp ASC: every order of the rows that is ascending in
\* timestamp (rows of equal timestamp come in any order)
order_by_timestamp(rows) ==
    LET n == Len(rows)
        orders == {p \in [1..n -> 1..n] :
                      /\ \A i, j \in 1..n : i # j => p[i] # p[j]
                      /\ \A i, j \in 1..n :
                             i < j => rows[p[i]].timestamp <= rows[p[j]].timestamp}
    IN  {[i \in 1..n |-> rows[p[i]]] : p \in orders}

\* QueryService::get_receipt_events / get_external_events: the results the
\* database may give
get_events(rows, trace_id) == order_by_timestamp(where_trace_id(rows, trace_id))

\* the columns policy_allowed and identity_valid of a receipt_events row
policy_allowed(row) == Some(row.policy_result.allowed)
identity_valid(row) == Some(row.identity_result.valid)

\* a variant of the receipt entry's outcome that looks at the policy only
receipt_outcome_policy_only(row) ==
    [success |-> unwrap_or(policy_allowed(row), FALSE),
     reason |-> IF ~unwrap_or(policy_allowed(row), TRUE)
                THEN Some("Policy denied") ELSE None]

\* get_timeline: the EventOutcome of a receipt entry
receipt_outcome(row) ==
    [success |-> unwrap_or(policy_allowed(row), FALSE)
                 /\ unwrap_or(identity_valid(row), FALSE),
     reason |-> IF ~unwrap_or(policy_allowed(row), TRUE)
                THEN Some("Policy denied")
                ELSE IF ~unwrap_or(identity_valid(row), TRUE)
                THEN Some("Identity invalid")
                ELSE None]

\* get_timeline: the TimelineEvent of a receipt event
receipt_timeline_event(row) ==
    [event_id |-> row.receipt_id,
     timestamp |-> row.timestamp,
     event_type |-> row.event_type,
     source_system |-> row.event_source.system,
     source_service |-> row.event_source.service,
     agent_id |-> Some(row.agent_id),
     summary |-> <<row.request.method, " ", row.request.path, " - ",
                   IF unwrap_or(policy_allowed(row), FALSE) THEN "Allowed"
                   ELSE "Denied">>,
     outcome |-> receipt_outcome(row)]

\* get_timeline: the TimelineEvent of an external event
external_timeline_event(row) ==
    LET actor_name == IF IsSome(row.actor_display_name)
                      THEN Unwrap(row.actor_display_name)
                      ELSE IF IsSome(row.actor_id) THEN Unwrap(row.actor_id)
                      ELSE "System"
    IN  [event_id |-> row.event_id,
         timestamp |-> row.timestamp,
         event_type |-> row.event_type,
         source_system |-> row.source_system,
         source_service |-> row.source_id,
         agent_id |-> row.actor_id,
         summary |-> <<row.event_type, " by ", actor_name, " (",
                       row.source_system, ")">>,
         outcome |-> [success |-> TRUE, reason |-> None]]

\* a variant of the sort that leaves the entries as they were pushed
sort_by_timestamp_unsorted(entries) == entries

\* timeline.sort_by(|a, b| a.timestamp.cmp(&b.timestamp)): a stable sort
RECURSIVE sort_by_timestamp(_)
sort_by_timestamp(entries) ==
    IF entries = <<>> THEN <<>>
    ELSE LET n == Len(entries)
             sorted == sort_by_timestamp(SubSeq(entries, 1, n - 1))
             x == entries[n]
             k == Cardinality({i \in 1..Len(sorted) :
                                  sorted[i].timestamp <= x.timestamp})
         IN  SubSeq(sorted, 1, k) \o <<x>> \o SubSeq(sorted, k + 1, Len(sorted))

\* QueryService::get_timeline: the timelines it may return
get_timeline(receipt_events, ext_events, trace_id) ==
    {sort_by_timestamp(
         [i \in 1..Len(r) |-> receipt_timeline_event(r[i])] \o
         [i \in 1..Len(e) |-> external_timeline_event(e[i])]) :
        r \in get_events(receipt_events, trace_id),
        e \in get_events(ext_events, trace_id)}

TimelineNone ==
    [op |-> "none", trace_id |-> new_v4(0), status |-> 0, entries |-> <<>>,
     calls |-> 0]

\* api::get_trace_timeline; calls counts the calls answered, modulo 2
GetTimeline ==
    /\ \E trace_id \in TraceQueryArgs :
        IF ~db_pool
        THEN timeline' = [op |-> "get_timeline", trace_id |-> trace_id,
                          status |-> 503, entries |-> <<>>,
                          calls |-> (timeline.calls + 1) % 2]
        ELSE \E entries \in get_timeline(db.receipt_events, external_events,
                                         trace_id) :
                timeline' = [op |-> "get_timeline", trace_id |-> trace_id,
                             status |-> 200, entries |-> entries,
                             calls |-> (timeline.calls + 1) % 2]
    /\ UNCHANGED <<regVars, gw, pe, external_events, lookup, storeVars,
                   trustVars, taskVars, sinkVars>>

\* the correlation ids of the x-correlation-id header and of GET /v1/lookup
CorrelationIds == {"order-1", "order-2"}

\* the ReceiptRequest bodies that may carry a correlation id
CorrelatedRequests ==
    {[trace_id |-> t, correlation_id |-> c, span_id |-> None,
      parent_span_id |-> None, agent_id |-> "agent1", event_type |-> None,
      event_source |-> None, request |-> TheRequest,
      policy_result |-> [allowed |-> a, policy_version |-> "v1"],
      identity_result |-> [valid |-> TRUE, developer_id |-> 1,
                           enterprise_id |-> None],
      metadata |-> None] :
        t \in TraceArgs, c \in {None} \cup {Some(x) : x \in CorrelationIds},
        a \in BOOLEAN}

\* QueryService::get_trace: the TraceSummary columns of the row, if any
TraceSummary(row) ==
    [trace_id |-> row.trace_id, correlation_id |-> row.correlation_id,
     status |-> row.status, started_at |-> row.started_at,
     last_event_at |-> row.last_event_at, event_count |-> row.event_count,
     policy_deny_count |-> row.policy_deny_count,
     initiating_agent_id |-> row.initiating_agent_id]

get_trace(d, trace_id) ==
    LET rows == SelectSeq(d.traces, LAMBDA r : r.trace_id = trace_id)
    IN  IF rows = <<>> THEN None ELSE Some(TraceSummary(rows[1]))

\* QueryService::get_trace_by_correlation: WHERE correlation_id = $1 with
\* fetch_optional, which gives one of the matching rows or None
get_trace_by_correlation(d, correlation_id) ==
    LET rows == {i \in 1..Len(d.traces) :
                    d.traces[i].correlation_id = Some(correlation_id)}
    IN  IF rows = {} THEN {None}
        ELSE {Some(TraceSummary(d.traces[i])) : i \in rows}

\* QueryService::build_decision_tree over the receipt events as fetched
build_decision_tree(events) ==
    LET node(i, k) ==
            LET event == events[i]
                valid == unwrap_or(identity_valid(event), FALSE)
                allowed == unwrap_or(policy_allowed(event), FALSE)
            IN  IF k = 0
                THEN [id |-> <<"identity-", i - 1>>, node_type |-> "identity",
                      outcome |-> valid, timestamp |-> event.timestamp]
                ELSE IF k = 1
                THEN [id |-> <<"policy-", i - 1>>, node_type |-> "policy",
                      outcome |-> allowed, timestamp |-> event.timestamp]
                ELSE [id |-> <<"action-", i - 1>>, node_type |-> "action",
                      outcome |-> valid /\ allowed,
                      timestamp |-> event.timestamp]
    IN  [nodes |-> [n \in 1..(3 * Len(events)) |->
                       node((n - 1) \div 3 + 1, (n - 1) % 3)]]

\* QueryService::get_trace_detail: the answers it may give
get_trace_detail(d, ext_events, trace_id) ==
    IF ~IsSome(get_trace(d, trace_id)) THEN {None}
    ELSE {Some([trace |-> Unwrap(get_trace(d, trace_id)),
                timeline |-> tl,
                decision_tree |-> build_decision_tree(ev)]) :
            tl \in get_timeline(d.receipt_events, ext_events, trace_id),
            ev \in get_events(d.receipt_events, trace_id)}

\* the body of an answer without a trace detail
NoDetail ==
    [trace |-> [trace_id |-> new_v4(0), correlation_id |-> None,
                status |-> "", started_at |-> 0, last_event_at |-> 0,
                event_count |-> 0, policy_deny_count |-> 0,
                initiating_agent_id |-> ""],
     timeline |-> <<>>, decision_tree |-> [nodes |-> <<>>]]

LookupNone ==
    [op |-> "none", correlation_id |-> "", status |-> 0, error |-> "",
     detail |-> NoDetail]

\* api::lookup_by_correlation: the answers it may give
lookup_by_correlation(d, pool, ext_events, correlation_id) ==
    IF ~pool
    THEN {[op |-> "lookup_by_correlation", correlation_id |-> correlation_id,
           status |-> 503, error |-> "database_unavailable",
           detail |-> NoDetail]}
    ELSE UNION {
        IF ~IsSome(t)
        THEN {[op |-> "lookup_by_correlation",
               correlation_id |-> correlation_id, status |-> 404,
               error |-> "not_found", detail |-> NoDetail]}
        ELSE {IF IsSome(detail)
              THEN [op |-> "lookup_by_correlation",
                    correlation_id |-> correlation_id, status |-> 200,
                    error |-> "", detail |-> Unwrap(detail)]
              ELSE [op |-> "lookup_by_correlation",
                    correlation_id |-> correlation_id, status |-> 404,
                    error |-> "not_found", detail |-> NoDetail] :
                detail \in get_trace_detail(d, ext_events,
                                            Unwrap(t).trace_id)} :
        t \in get_trace_by_correlation(d, correlation_id)}

LookupByCorrelation ==
    /\ \E correlation_id \in CorrelationIds :
           lookup' \in lookup_by_correlation(db, db_pool, external_events,
                                            correlation_id)
    /\ UNCHANGED <<regVars, gw, pe, external_events, timeline, storeVars,
                   trustVars, taskVars, sinkVars>>

InitQueries ==
    /\ external_events = <<>>
    /\ timeline = TimelineNone
    /\ lookup = LookupNone

InitRegistry ==
    /\ developers = <<>>
    /\ agents = <<>>
    /\ tenants = <<>>
    /\ regResp = NoResponse
    /\ revokedOk = {}
    /\ gw = GwNone

InitStore ==
    /\ db = EmptyDb
    /\ clock = 0
    /\ uuids = 0
    /\ rsResp = [op |-> "none", receipt_id |-> new_v4(0), receipt_hash |-> "",
                 trace_id |-> new_v4(0), stored |-> FALSE]

InitTasks ==
    /\ task = [p \in Procs |-> TaskIdle]
    /\ started = 0
    /\ reg = [p \in Procs |-> RegIdle]

InitPolicy == pe = PeNone

InitSinks ==
    /\ kafka = <<>>
    /\ s3 = <<>>

InitTrust ==
    /\ trust_scores = None
    /\ trust_score_history = <<>>
    /\ trustClock = 0
    /\ upd = [p \in Procs |-> Idle]
    /\ trustResp = TrustError("none", 0, "")

Init ==
    InitRegistry /\ InitStore /\ InitTrust /\ InitTasks /\ InitSinks
    /\ InitPolicy /\ InitQueries
    /\ db_pool = TRUE

\* main: db_pool is Some when DATABASE_URL is set, None otherwise
InitStoreConfigs ==
    InitRegistry /\ InitStore /\ InitTrust /\ InitTasks /\ InitSinks
    /\ InitPolicy /\ InitQueries
    /\ db_pool \in BOOLEAN

NextRegistry ==
    \/ RegisterDeveloper
    \/ RegisterAgent
    \/ ValidateAgent
    \/ RevokeAgent
    \/ CreateTenant
    \/ UpdateTenant
    \/ DeactivateTenant

SpecRegistry == Init /\ [][NextRegistry]_vars

NextAgents ==
    \/ RegisterDeveloper
    \/ RegisterAgentAmong(AgentEnterpriseArgs)
    \/ RevokeAgent

SpecAgents == Init /\ [][NextAgents]_vars

NextRegisterTasks ==
    \/ \E p \in Procs : RegisterDeveloperSelect(p)
    \/ \E p \in Procs : RegisterDeveloperInsert(p)

SpecRegisterTasks == Init /\ [][NextRegisterTasks]_vars

NextTenants ==
    \/ CreateTenantAmong(HierarchyTenantIds)
    \/ UpdateTenantAmong(HierarchyTenantIds)
    \/ DeactivateTenantAmong(HierarchyTenantIds)
    \/ GetTenant
    \/ GetTenantHierarchy

SpecTenants == Init /\ [][NextTenants]_vars

NextGateway ==
    \/ RegisterDeveloper
    \/ RegisterAgent
    \/ RevokeAgent
    \/ GatewayRequest

SpecGateway == Init /\ [][NextGateway]_vars

NextTrust ==
    \/ CreateTrustScore
    \/ UpdateTrustDimension

SpecTrust == Init /\ [][NextTrust]_vars

NextTrustTasks ==
    \/ CreateTrustScore
    \/ \E p \in Procs : UpdateSelect(p)
    \/ \E p \in Procs : UpdateHistory(p)
    \/ \E p \in Procs : UpdateLive(p)

SpecTrustTasks == Init /\ [][NextTrustTasks]_vars

NextStore ==
    \/ StoreReceipt
    \/ StoreReceiptV2

SpecStore == Init /\ [][NextStore]_vars

\* the receipt store with and without a database; the clock bounds the calls
NextStoreConfigs ==
    \/ clock < 2 * MaxReceipts /\ StoreReceipt
    \/ clock < 2 * MaxReceipts /\ StoreReceiptV2

SpecStoreConfigs == InitStoreConfigs /\ [][NextStoreConfigs]_vars

NextPlatform ==
    \/ RegisterDeveloper
    \/ RegisterAgent
    \/ GatewayRequest
    \/ GatewayReceiptPosted

SpecPlatform == Init /\ [][NextPlatform]_vars

NextTimeline ==
    \/ StoreReceipt
    \/ StoreExternalEvent
    \/ GetTimeline

SpecTimeline == Init /\ [][NextTimeline]_vars

NextLookup ==
    \/ StoreReceiptAmong(CorrelatedRequests)
    \/ LookupByCorrelation

SpecLookup == Init /\ [][NextLookup]_vars

NextPolicy ==
    \/ EvaluatePolicy
    \/ EvaluatePolicyV2

SpecPolicy == Init /\ [][NextPolicy]_vars

NextStoreTasks ==
    \E p \in Procs :
        \/ TaskBegin(p)
        \/ TaskUpsertTrace(p)
        \/ TaskStoreReceiptEvent(p)
        \/ TaskStoreReceiptHash(p)
        \/ TaskStoreTrustEvent(p)
        \/ TaskIncrementTrustViolations(p)
        \/ TaskSendReceipt(p)
        \/ TaskArchiveReceipt(p)
        \/ TaskFail(p)

SpecStoreTasks == Init /\ [][NextStoreTasks]_vars

-----------------------------------------------------------------------------
\* Properties

\* the registry gave this request a successful answer saying valid and not
\* revoked
IdentityPassed ==
    /\ gw.idnet = "ok"
    /\ gw.idresp.status \in 200..299
    /\ IsSome(gw.idresp.body)
    /\ Unwrap(gw.idresp.body).valid
    /\ ~Unwrap(gw.idresp.body).revoked

\* the policy engine gave this request a successful answer saying allowed
PolicyPassed == gw.polnet = "ok" /\ gw.answer.allowed

\* the reply is an error status, nothing was forwarded and exactly one
\* receipt, a denial, was emitted
DeniedWithReceipt ==
    /\ gw.reply.status \in 400..599
    /\ gw.reply.upstream_calls = 0
    /\ Len(gw.reply.receipts) = 1
    /\ ~gw.reply.receipts[1].policy_result.allowed

\* C1: the gateway calls the upstream only for a request whose validate_agent
\* call succeeded with valid = true and revoked = false and whose evaluate
\* call succeeded with allowed = true; when either call fails (network error
\* or non-2xx) or answers negatively, the reply is a 4xx/5xx, nothing is
\* forwarded and a denial receipt is emitted.
C1_FailClosed ==
    /\ gw.reply.upstream_calls = 1 => IdentityPassed /\ PolicyPassed
    /\ gw.reply.upstream_calls \in {0, 1}
    /\ (gw.reply.identity_calls = 1 /\ ~(IdentityPassed /\ PolicyPassed))
           => DeniedWithReceipt

\* C1 case: the policy engine answered with a non-2xx status
C1_Witness ==
    /\ gw.reply.op = "intercept"
    /\ IdentityPassed
    /\ gw.polnet = "http500"
    /\ gw.reply.status = 500

\* the fields a receipt's hash covers
HashedFieldsV1 ==
    {"receipt_id", "trace_id", "correlation_id", "span_id", "parent_span_id",
     "timestamp", "agent_id", "event_type", "event_source", "request",
     "policy_result", "identity_result", "metadata", "previous_receipt_hash"}
HashedFieldsV2 ==
    HashedFieldsV1 \cup {"tenant_id", "trust_snapshot", "attribution_snapshot"}

\* the canonical encoding of the fields F of receipt R
CanonicalEncoding(R, F) ==
    [k \in F |-> IF k = "timestamp" THEN <<"rfc3339", R[k]>> ELSE R[k]]

\* C2: every persisted receipt's receipt_hash is the hash of the canonical
\* encoding of all its fields except receipt_hash (receipt_id ..
\* previous_receipt_hash, and for a v2 receipt also tenant_id, trust_snapshot
\* and attribution_snapshot); receipts that differ in a hashed field have
\* different hash inputs.
C2_HashCoversFields ==
    /\ \A i \in 1..Len(db.receipt_events) :
           LET R == db.receipt_events[i]
               F == IF IsV2(R) THEN HashedFieldsV2 ELSE HashedFieldsV1
           IN  /\ DOMAIN R = F \cup {"receipt_hash"}
               /\ R.receipt_hash = <<"sha256", CanonicalEncoding(R, F)>>
    /\ \A i, j \in 1..Len(db.receipt_events) :
           db.receipt_events[i].receipt_hash = db.receipt_events[j].receipt_hash
               => db.receipt_events[i] = db.receipt_events[j]

\* C2 case: a v1 and a v2 receipt are persisted, one of them chained
C2_Witness ==
    /\ \E i \in 1..Len(db.receipt_events) : IsV2(db.receipt_events[i])
    /\ \E i \in 1..Len(db.receipt_events) :
           /\ ~IsV2(db.receipt_events[i])
           /\ IsSome(db.receipt_events[i].previous_receipt_hash)

C4_RevocationSticks ==
    regResp.op = "validate_agent" =>
        /\ regResp.id \in revokedOk =>
               /\ regResp.status = 200
               /\ ~Unwrap(regResp.body).valid
               /\ Unwrap(regResp.body).revoked
        /\ regResp.status = 200 =>
               Unwrap(regResp.body).valid = ~Unwrap(regResp.body).revoked

\* C4 case: validate_agent ran for a revoked agent while another agent is
\* registered and unrevoked
C4_Witness ==
    /\ regResp.op = "validate_agent"
    /\ regResp.id \in revokedOk
    /\ \E i \in 1..Len(agents) : ~IsSome(agents[i].revoked_at)

\* the reply to a request of a revoked agent, but for its reason
DeniedAsRevoked ==
    /\ gw.reply.status = 403
    /\ IsSome(gw.reply.body)
    /\ Unwrap(gw.reply.body).error = "request_denied"
    /\ gw.reply.upstream_calls = 0
    /\ gw.reply.policy_calls = 0
    /\ Len(gw.reply.receipts) = 1
    /\ ~gw.reply.receipts[1].policy_result.allowed

\* C5 as stated: every gateway request of an agent made after its revoke_agent
\* succeeded is answered 403 request_denied with reason "Agent identity
\* invalid or revoked", a denial receipt and no upstream call.
C5_Original ==
    gw.after_revoke =>
        /\ DeniedAsRevoked
        /\ Unwrap(gw.reply.body).reason = <<"Agent identity invalid or revoked">>

\* C5: every gateway request of an agent made after its revoke_agent succeeded
\* is answered 403 request_denied with a denial receipt and no upstream call;
\* the reason is "Agent identity invalid or revoked" when the registry's answer
\* reached the gateway and "Identity validation failed: ..." when the
\* validate_agent call itself failed.
C5_RevokedDenied ==
    gw.after_revoke =>
        /\ DeniedAsRevoked
        /\ gw.idnet = "ok" =>
               Unwrap(gw.reply.body).reason = <<"Agent identity invalid or revoked">>
        /\ gw.idnet # "ok" =>
               /\ Len(Unwrap(gw.reply.body).reason) >= 2
               /\ Unwrap(gw.reply.body).reason[1] = "Identity validation failed: "

\* C5 case: a request of a revoked agent whose validate_agent call succeeded
C5_Witness ==
    /\ gw.after_revoke
    /\ gw.idnet = "ok"
    /\ gw.reply.op = "intercept"
    /\ gw.reply.identity_calls = 1

\* the registry's tables are left as they were
RegistryUnchanged == UNCHANGED <<developers, agents, tenants>>

\* a register_developer / create_tenant step for an id that already exists
\* answers 409 and changes nothing
C6_DeveloperAndTenantStep ==
    /\ (regResp'.op = "register_developer"
        /\ find_developer(developers, regResp'.id) # {})
           => regResp'.status = 409 /\ RegistryUnchanged
    /\ (regResp'.op = "create_tenant" /\ find_tenant(tenants, regResp'.id) # {})
           => regResp'.status = 409 /\ RegistryUnchanged

ReceiptsOf(trace_id) ==
    {i \in 1..Len(db.receipt_events) : db.receipt_events[i].trace_id = trace_id}

RECURSIVE SumScores(_)
SumScores(S) ==
    IF S = {} THEN 0
    ELSE LET i == CHOOSE x \in S : TRUE
         IN  Unwrap(db.receipt_events[i].trust_snapshot).composite_score
                 + SumScores(S \ {i})

\* every receipt of the trace is a v2 receipt carrying a trust score
AllScored(trace_id) ==
    \A i \in ReceiptsOf(trace_id) :
        /\ IsV2(db.receipt_events[i])
        /\ IsSome(db.receipt_events[i].trust_snapshot)

\* min_trust_score and avg_trust_score of every trace whose receipts all carry
\* scores are the minimum and the mean of these scores
C8_MinAndMean ==
    \A k \in 1..Len(db.traces) :
        LET T == db.traces[k]
            S == ReceiptsOf(T.trace_id)
        IN  (S # {} /\ AllScored(T.trace_id)) =>
            /\ IsSome(T.min_trust_score)
            /\ \E i \in S :
                   /\ Unwrap(T.min_trust_score).n * 100 =
                          Unwrap(db.receipt_events[i].trust_snapshot).composite_score
                              * Unwrap(T.min_trust_score).d
                   /\ \A j \in S :
                          Unwrap(db.receipt_events[i].trust_snapshot).composite_score
                              <= Unwrap(db.receipt_events[j].trust_snapshot).composite_score
            /\ IsSome(T.avg_trust_score)
            /\ Unwrap(T.avg_trust_score).n * 100 * Cardinality(S) =
                   SumScores(S) * Unwrap(T.avg_trust_score).d

\* a trace's min_trust_score, once set, is never raised or cleared
C8_MinStep ==
    /\ Len(db'.traces) >= Len(db.traces)
    /\ \A k \in 1..Len(db.traces) :
           IsSome(db.traces[k].min_trust_score) =>
               /\ IsSome(db'.traces[k].min_trust_score)
               /\ FracLeq(Unwrap(db'.traces[k].min_trust_score),
                          Unwrap(db.traces[k].min_trust_score))

FailedEvaluations(trace_id) ==
    {i \in ReceiptsOf(trace_id) :
        /\ IsV2(db.receipt_events[i])
        /\ IsSome(db.receipt_events[i].policy_result.trust_evaluation)
        /\ ~Unwrap(db.receipt_events[i].policy_result.trust_evaluation).passed}

\* C9: a trace's trust_violations is the number of its stored receipts whose
\* trust_evaluation is present with passed = false; a receipt without a trust
\* evaluation, or with passed = true, does not change it.
C9_TrustViolations ==
    \A k \in 1..Len(db.traces) :
        LET T == db.traces[k] IN
        /\ (IF IsSome(T.trust_violations) THEN Unwrap(T.trust_violations) ELSE 0)
               = Cardinality(FailedEvaluations(T.trace_id))
        /\ (\A i \in ReceiptsOf(T.trace_id) : IsV2(db.receipt_events[i]))
               => IsSome(T.trust_violations)

\* C9 case: a trace with a failed and a passed evaluation, next to another
\* trace
C9_Witness ==
    \E k \in 1..Len(db.traces) :
        /\ db.traces[k].trust_violations = Some(1)
        /\ Cardinality(ReceiptsOf(db.traces[k].trace_id)) = 2
        /\ \E i \in ReceiptsOf(db.traces[k].trace_id) :
               /\ IsV2(db.receipt_events[i])
               /\ IsSome(db.receipt_events[i].policy_result.trust_evaluation)
               /\ Unwrap(db.receipt_events[i].policy_result.trust_evaluation).passed

\* the type a trust event must have for this policy result
ExpectedTrustEventType(policy_result) ==
    IF ~Unwrap(policy_result.trust_evaluation).passed THEN "threshold_violation"
    ELSE IF \E w \in 1..Len(policy_result.warnings) :
                LET code == policy_result.warnings[w].code
                IN  /\ Len(code) >= 6
                    /\ <<code[1], code[2], code[3], code[4], code[5], code[6]>>
                           = <<"T", "R", "U", "S", "T", "_">>
    THEN "trust_warning"
    ELSE "score_checked"

\* C10: a store_receipt_v2 call appends exactly one trust_event when the
\* request's trust_evaluation is present and none when it is absent; the
\* event's type is threshold_violation when passed = false, otherwise
\* trust_warning when a warning code starts with "TRUST_", otherwise
\* score_checked.
C10_TrustEvent ==
    [][LET n == Len(db.receipt_events)
           m == Len(db.trust_events)
       IN  Len(db'.receipt_events) = n + 1 =>
           LET R == db'.receipt_events[n + 1] IN
           IF IsV2(R) /\ IsSome(R.policy_result.trust_evaluation)
           THEN /\ Len(db'.trust_events) = m + 1
                /\ SubSeq(db'.trust_events, 1, m) = db.trust_events
                /\ db'.trust_events[m + 1].trace_id = R.trace_id
                /\ db'.trust_events[m + 1].event_type =
                       ExpectedTrustEventType(R.policy_result)
           ELSE db'.trust_events = db.trust_events]_vars

\* C10 case: a passed evaluation whose only warning code has "TRUST_" inside
\* but not in front
C10_Witness ==
    \E i \in 1..Len(db.receipt_events) :
        /\ IsV2(db.receipt_events[i])
        /\ IsSome(db.receipt_events[i].policy_result.trust_evaluation)
        /\ Unwrap(db.receipt_events[i].policy_result.trust_evaluation).passed
        /\ db.receipt_events[i].policy_result.warnings = <<[code |-> RATE_TRUST]>>
        /\ \E e \in 1..Len(db.trust_events) :
               /\ db.trust_events[e].trace_id = db.receipt_events[i].trace_id
               /\ db.trust_events[e].event_type = "score_checked"

\* the stored composite is the mean of the five stored dimensions
CompositeIsMean(row) ==
    row.composite_score.n * 500 =
        (row.dimension_scores.behavior + row.dimension_scores.validation
         + row.dimension_scores.provenance + row.dimension_scores.alignment
         + row.dimension_scores.reputation) * row.composite_score.d

\* C11: after a successful update_dimension(d, delta) the named dimension is
\* clamp(old + delta, 0, 1), the four other dimensions are unchanged and the
\* stored composite is the mean of the five stored dimensions.
C11_ClampAndComposite ==
    [][(/\ trustResp'.op = "update_trust_dimension"
        /\ trustResp'.status = 200
        /\ Len(trust_score_history') = Len(trust_score_history) + 1)
       => LET old == Unwrap(trust_scores).dimension_scores
              new == Unwrap(trust_scores').dimension_scores
              d == IF trustResp'.dimension = "Validation" THEN "validation"
                   ELSE trustResp'.dimension
              sum == old[d] + trustResp'.delta
          IN  /\ d \in Dimensions
              /\ new[d] = IF sum < 0 THEN 0 ELSE IF sum > 100 THEN 100 ELSE sum
              /\ \A e \in Dimensions \ {d} : new[e] = old[e]
              /\ CompositeIsMean(Unwrap(trust_scores'))]_vars

\* C11 case: an update that was clamped at 1, on a score with history
C11_Witness ==
    /\ trustResp.op = "update_trust_dimension"
    /\ trustResp.status = 200
    /\ trustResp.dimension = "behavior"
    /\ trustResp.delta = 30
    /\ Unwrap(trust_scores).dimension_scores.behavior = 100
    /\ Len(trust_score_history) >= 2

\* C12: for every change of the live trust-score row made by update_dimension,
\* under any interleaving of update_dimension calls, a history row exists that
\* holds the composite and dimensions the live row had just before the change,
\* with recorded_at <= the new last_calculated_at; history rows are never
\* modified.
C12_HistoryBeforeChange ==
    [][/\ (IsSome(trust_scores) /\ trust_scores' # trust_scores)
              => \E i \in 1..Len(trust_score_history') :
                     LET h == trust_score_history'[i] IN
                     /\ h.composite_score = Unwrap(trust_scores).composite_score
                     /\ h.dimension_scores = Unwrap(trust_scores).dimension_scores
                     /\ h.recorded_at <= Unwrap(trust_scores').last_calculated_at
       /\ Len(trust_score_history') >= Len(trust_score_history)
       /\ SubSeq(trust_score_history', 1, Len(trust_score_history))
              = trust_score_history]_vars

\* C13: after any sequence of create_tenant, update_tenant and
\* deactivate_tenant calls, every non-deactivated tenant T with parent P has
\* depth = P.depth + 1, root = P.root and path = P.path ++ [T.external_id];
\* every root tenant has depth 0, itself as root and path [external_id].
C13_HierarchyDerived ==
    \A i \in 1..Len(tenants) :
        LET T == tenants[i] IN
        ~IsSome(T.deactivated_at) =>
            IF IsSome(T.parent_tenant_id)
            THEN LET P == tenants[Unwrap(T.parent_tenant_id)] IN
                 /\ T.hierarchy_depth = P.hierarchy_depth + 1
                 /\ T.root_tenant_id = P.root_tenant_id
                 /\ IsSome(P.hierarchy_path)
                 /\ T.hierarchy_path =
                        Some(Unwrap(P.hierarchy_path) \o <<T.tenant_id>>)
            ELSE /\ T.hierarchy_depth = 0
                 /\ T.root_tenant_id = Some(i)
                 /\ T.hierarchy_path = Some(<<T.tenant_id>>)

\* C13 case: a live, updated child tenant whose parent was updated and then
\* deactivated
C13_Witness ==
    \E i \in 1..Len(tenants) :
        /\ ~IsSome(tenants[i].deactivated_at)
        /\ IsSome(tenants[i].display_name)
        /\ IsSome(tenants[i].parent_tenant_id)
        /\ IsSome(tenants[Unwrap(tenants[i].parent_tenant_id)].deactivated_at)
        /\ IsSome(tenants[Unwrap(tenants[i].parent_tenant_id)].display_name)

\* the register_agent requests for a registered developer
AgentRequestsOfRegistered ==
    {p \in [agent_id : AgentIds, developer_id : DevArgs,
            enterprise_id : EnterpriseArgs, public_key : {"PK"}] :
        find_developer(developers, p.developer_id) # {}}

\* the request and its developer both carry an enterprise, and the two are
\* different enterprises; a request names an enterprise by its external id
DifferentEnterprises(p) ==
    LET dev == developers[CHOOSE i \in find_developer(developers, p.developer_id) : TRUE]
    IN  /\ IsSome(p.enterprise_id)
        /\ IsSome(dev.enterprise_id)
        /\ enterprise_uuid(p.enterprise_id) # dev.enterprise_id

\* C14: register_agent answers 400 enterprise_mismatch exactly when the
\* request and the referenced developer both carry an enterprise and the two
\* refer to different enterprises; when they refer to the same enterprise and
\* the agent id is new, the registration succeeds.
C14_EnterpriseMismatch ==
    \A p \in AgentRequestsOfRegistered :
        LET resp == register_agent_result(developers, agents, p).resp
        IN  /\ (resp.status = 400 /\ resp.error = "enterprise_mismatch")
                   <=> DifferentEnterprises(p)
            /\ (~DifferentEnterprises(p) /\ find_agent(agents, p.agent_id) = {})
                   => resp.status = 200

\* C15: a gateway request without the x-pathwell-agent-id header is answered
\* with status 400, without any call to the identity registry, the policy
\* engine or the upstream.
C15_MissingHeader ==
    (gw.reply.op = "intercept" /\ ~IsSome(gw.reply.agent_id)) =>
        /\ gw.reply.status = 400
        /\ gw.reply.identity_calls = 0
        /\ gw.reply.policy_calls = 0
        /\ gw.reply.upstream_calls = 0

ForwardedMethods == {"GET", "POST", "PUT", "PATCH", "DELETE"}

\* C16: the gateway's failure status is that of the first failing stage:
\* identity error or valid = false / revoked = true -> 403; policy call error
\* -> 500; policy allowed = false -> 403 with error "request_denied" and the
\* policy's reason; method outside GET/POST/PUT/PATCH/DELETE -> 405; upstream
\* send failure -> 502.
C16_FirstFailingStage ==
    (gw.reply.op = "intercept" /\ IsSome(gw.reply.agent_id)) =>
        IF ~IdentityPassed
        THEN gw.reply.status = 403 /\ gw.reply.policy_calls = 0
        ELSE IF gw.polnet # "ok"
        THEN gw.reply.status = 500 /\ gw.reply.upstream_calls = 0
        ELSE IF ~gw.answer.allowed
        THEN /\ gw.reply.status = 403
             /\ Unwrap(gw.reply.body).error = "request_denied"
             /\ Unwrap(gw.reply.body).reason = <<gw.answer.reason>>
        ELSE IF gw.method \notin ForwardedMethods
        THEN gw.reply.status = 405 /\ gw.reply.upstream_calls = 0
        ELSE IF gw.up = "send_err"
        THEN gw.reply.status = 502
        ELSE gw.reply.status = 200 /\ gw.reply.body = None

\* C16 case: identity and policy passed and the method is not forwarded
C16_Witness ==
    /\ gw.reply.op = "intercept"
    /\ IdentityPassed
    /\ PolicyPassed
    /\ gw.method = "OPTIONS"
    /\ gw.reply.status = 405

\* C17: every gateway request that carries an agent id emits exactly one
\* receipt: a forwarded request one with allowed = true, every denial one with
\* allowed = false and metadata {error_reason, status_code}, status_code being
\* the status returned to the caller.
C17_OneReceipt ==
    (gw.reply.op = "intercept" /\ IsSome(gw.reply.agent_id)) =>
        /\ Len(gw.reply.receipts) = 1
        /\ gw.reply.receipts[1].agent_id = Unwrap(gw.reply.agent_id)
        /\ IF /\ IdentityPassed
              /\ PolicyPassed
              /\ gw.method \in ForwardedMethods
              /\ gw.up # "send_err"
           THEN /\ gw.reply.receipts[1].policy_result.allowed
                /\ gw.reply.receipts[1].metadata = None
           ELSE /\ ~gw.reply.receipts[1].policy_result.allowed
                /\ gw.reply.status \in 400..599
                /\ gw.reply.receipts[1].metadata =
                       Some([error_reason |-> Unwrap(gw.reply.body).reason,
                             status_code |-> gw.reply.status])

\* C17 case: the upstream could not be reached after identity and policy
\* passed
C17_Witness ==
    /\ gw.reply.op = "intercept"
    /\ IdentityPassed
    /\ PolicyPassed
    /\ gw.up = "send_err"
    /\ gw.reply.status = 502
    /\ Len(gw.reply.receipts) = 1

HasTrace(d, trace_id) == trace_rows(d, trace_id) # {}

\* C18: in every reachable state of the store's relational data, between the
\* statements of store_receipt / store_receipt_v2 and after a call failed
\* midway included, every receipt event row and every trust event row has a
\* trace row with the same trace_id.
C18_EventsHaveTrace ==
    /\ \A i \in 1..Len(db.receipt_events) :
           HasTrace(db, db.receipt_events[i].trace_id)
    /\ \A i \in 1..Len(db.trust_events) :
           HasTrace(db, db.trust_events[i].trace_id)

\* C18 case: a call has failed, events and a trust event are stored, and
\* another call is between its trace upsert and its event insert
C18_Witness ==
    /\ rsResp.op = "failed"
    /\ db.receipt_events # <<>>
    /\ db.trust_events # <<>>
    /\ \E p \in Procs : task[p].pc = "store_receipt_event"

AllIdle == \A p \in Procs : task[p].pc = "idle"

\* C19: a store_receipt / store_receipt_v2 call that fails or is cancelled at
\* a suspension point leaves no partial effect: once no call is running there
\* is no trace row without a receipt event, no receipt event without its hash
\* row, and no receipt event with a trust evaluation without its trust event
\* and, for a failed evaluation, its trust_violations increment.
C19_NoPartialEffect ==
    AllIdle =>
        /\ \A i \in 1..Len(db.traces) :
               \E j \in 1..Len(db.receipt_events) :
                   db.receipt_events[j].trace_id = db.traces[i].trace_id
        /\ \A j \in 1..Len(db.receipt_events) :
               \E k \in 1..Len(db.receipts) :
                   db.receipts[k].receipt_id = db.receipt_events[j].receipt_id
        /\ \A i \in 1..Len(db.traces) :
               LET evaluated ==
                       {j \in 1..Len(db.receipt_events) :
                           /\ db.receipt_events[j].trace_id = db.traces[i].trace_id
                           /\ IsV2(db.receipt_events[j])
                           /\ IsSome(db.receipt_events[j].policy_result
                                         .trust_evaluation)}
                   failed ==
                       {j \in evaluated :
                           ~Unwrap(db.receipt_events[j].policy_result
                                       .trust_evaluation).passed}
               IN  /\ Cardinality(evaluated) =
                          Cardinality({k \in 1..Len(db.trust_events) :
                              db.trust_events[k].trace_id = db.traces[i].trace_id})
                   /\ Cardinality(failed) =
                          IF IsSome(db.traces[i].trust_violations)
                          THEN Unwrap(db.traces[i].trust_violations) ELSE 0

\* C20: two persisted receipts never carry the same previous_receipt_hash (at
\* most one carries none): the chain does not fork, however the calls overlap.
C20_ChainDoesNotFork ==
    \A i, j \in 1..Len(db.receipt_events) :
        i # j => db.receipt_events[i].previous_receipt_hash #
                     db.receipt_events[j].previous_receipt_hash

\* the relational rows of a receipt are all written
RowsWritten(d, request, receipt) ==
    /\ HasTrace(d, receipt.trace_id)
    /\ \E j \in 1..Len(d.receipt_events) : d.receipt_events[j] = receipt
    /\ \E k \in 1..Len(d.receipts) :
           /\ d.receipts[k].receipt_id = receipt.receipt_id
           /\ d.receipts[k].receipt_hash = receipt.receipt_hash
    /\ (IsRequestV2(request) /\ IsSome(request.policy_result.trust_evaluation)) =>
           \E k \in 1..Len(d.trust_events) :
               d.trust_events[k].trace_id = receipt.trace_id

\* a call is at one of its two sinks only with its rows written, and what is
\* on the topic or in the bucket is the payload of a stored receipt event
C21_SinksAfterRows ==
    /\ \A p \in Procs :
           task[p].pc \in {"send_receipt", "archive_receipt"} =>
               RowsWritten(db, task[p].request, task[p].receipt)
    /\ \A i \in 1..Len(kafka) :
           \E j \in 1..Len(db.receipt_events) :
               kafka[i] = to_string(db.receipt_events[j])
    /\ \A i \in 1..Len(s3) :
           \E j \in 1..Len(db.receipt_events) :
               s3[i].body = to_string(db.receipt_events[j])

\* a sink statement, answering Ok or Err, leaves the relational store as it
\* is and the call goes on to its successful response
C21_SinkStep ==
    \A p \in Procs :
        /\ (task[p].pc = "send_receipt" /\ task'[p] # task[p]) =>
               /\ db' = db
               /\ task'[p] = [task[p] EXCEPT !.pc = "archive_receipt"]
        /\ (task[p].pc = "archive_receipt" /\ task'[p] # task[p]) =>
               /\ db' = db
               /\ task'[p] = TaskIdle
               /\ rsResp'.stored
               /\ rsResp'.receipt_id = task[p].receipt.receipt_id
               /\ rsResp'.receipt_hash = task[p].receipt.receipt_hash

\* C21: in store_receipt / store_receipt_v2 the stream publish and the
\* archive write are attempted only after the relational writes have
\* succeeded, and a failure of either or both leaves the relational rows
\* untouched and does not change the successful result of the call.
C21_BestEffortSinks == []C21_SinksAfterRows /\ [][C21_SinkStep]_vars

\* C21 case: a call has answered stored = true although neither its publish
\* nor its archive write succeeded
C21_Witness ==
    /\ rsResp.stored
    /\ kafka = <<>>
    /\ s3 = <<>>
    /\ \E j \in 1..Len(db.receipt_events) :
           db.receipt_events[j].receipt_id = rsResp.receipt_id

\* the values a header sequence gives a name, in order
RECURSIVE values_of(_, _)
values_of(headers, name) ==
    IF headers = <<>> THEN <<>>
    ELSE IF headers[1].name = name
    THEN <<headers[1].value>> \o values_of(Tail(headers), name)
    ELSE values_of(Tail(headers), name)

\* the names the gateway takes out of the upstream view or sets itself
IsGatewayHeader(name) ==
    \/ starts_with(name, <<"x-pathwell-">>)
    \/ name \in {<<"host">>, <<"content-length">>, CORRELATION_ID_HEADER}

\* C22: every request the gateway forwards upstream carries none of the
\* caller's x-pathwell-* headers, host or content-length; it carries exactly
\* one x-pathwell-trace-id header whose value is the request's trace id, the
\* caller's x-correlation-id value when one was supplied, and all other
\* inbound headers unchanged.
C22_UpstreamHeaders ==
    (gw.reply.op = "intercept" /\ gw.reply.upstream_calls = 1) =>
        LET h == Unwrap(gw.reply.upstream_headers)
            inbound == {gw.headers[i].name : i \in 1..Len(gw.headers)}
        IN  /\ \A n \in DOMAIN h :
                   starts_with(n, <<"x-pathwell-">>) => n = TRACE_ID_HEADER
            /\ <<"host">> \notin DOMAIN h
            /\ <<"content-length">> \notin DOMAIN h
            /\ TRACE_ID_HEADER \in DOMAIN h
            /\ h[TRACE_ID_HEADER] = <<Uuid_to_string(Unwrap(gw.reply.trace_id))>>
            /\ CORRELATION_ID_HEADER \in inbound =>
                   /\ CORRELATION_ID_HEADER \in DOMAIN h
                   /\ \E i \in 1..Len(h[CORRELATION_ID_HEADER]) :
                          Some(h[CORRELATION_ID_HEADER][i]) =
                              header_get(gw.headers, CORRELATION_ID_HEADER)
            /\ \A n \in inbound :
                   ~IsGatewayHeader(n) =>
                       n \in DOMAIN h /\ h[n] = values_of(gw.headers, n)
            /\ \A n \in DOMAIN h : ~IsGatewayHeader(n) => n \in inbound

\* the trace id a request's headers ask for, if they carry one that parses
InboundTraceId ==
    LET given == header_get(gw.headers, TRACE_ID_HEADER)
    IN  IF IsSome(given) THEN Uuid_parse_str(Unwrap(given)) ELSE None

\* C23: every response the gateway returns, on the forwarded path and on
\* every failure path, carries an x-pathwell-trace-id header; its value is the
\* inbound x-pathwell-trace-id when that parses as a UUID and a freshly minted
\* id otherwise, and is the trace id sent upstream and recorded in the
\* request's receipt.
C23_TraceIdEverywhere ==
    gw.reply.op = "intercept" =>
        /\ TRACE_ID_HEADER \in DOMAIN gw.reply.headers
        /\ Len(gw.reply.headers[TRACE_ID_HEADER]) = 1
        /\ LET t == Uuid_parse_str(gw.reply.headers[TRACE_ID_HEADER][1])
           IN  /\ IsSome(t)
               /\ IF IsSome(InboundTraceId) THEN t = InboundTraceId
                  ELSE Unwrap(t) \in {new_v4(n) : n \in 1..2}
               /\ gw.reply.upstream_calls = 1 =>
                      Unwrap(gw.reply.upstream_headers)[TRACE_ID_HEADER] =
                          gw.reply.headers[TRACE_ID_HEADER]
               /\ \A i \in 1..Len(gw.reply.receipts) :
                      Some(gw.reply.receipts[i].trace_id) = t

\* C24: the status and body the gateway returns are the same whether the
\* receipt POST succeeds, fails or never completes, and the reply does not
\* wait for that POST: the reply given is the one every behaviour of the
\* receipt store gives for the same request.
C24_ReceiptStoreIndependent ==
    gw # GwNone =>
        /\ gw.reply.op = "intercept"
        /\ \A rs \in ReceiptStoreOutcomes :
               intercept(gw.headers, gw.method,
                         identity_client_validate_agent(gw.idnet, gw.idresp),
                         policy_client_evaluate(gw.polnet, gw.answer),
                         gw.up, rs) = gw.reply

\* C24 case: a forwarded request whose receipt POST never completes
C24_Witness ==
    /\ gw.reply.op = "intercept"
    /\ gw.rs = "hang"
    /\ gw.reply.upstream_calls = 1
    /\ gw.reply.status = 200

\* the `result` member of the evaluator's body in the last evaluate call
OpaResult == json_get(Unwrap(pe.opa.json), "result")

\* C25: policy engine v1 evaluate returns allowed = true only if the
\* evaluator answered 2xx with a boolean result equal to true; a non-2xx
\* answer yields allowed = false with reason "OPA evaluation failed: <status>",
\* a missing or non-boolean result yields allowed = false, and a network error
\* is propagated as an error, never as an allow.
C25_EvaluateV1 ==
    pe.op = "evaluate" =>
        /\ pe.opa.net = "neterr" => pe.response.status = 500
        /\ (pe.response.status = 200 /\ pe.response.body.allowed) =>
               /\ pe.opa.net = "ok"
               /\ pe.opa.status \in 200..299
               /\ IsSome(pe.opa.json)
               /\ OpaResult = Some(JsonBool(TRUE))
        /\ (pe.opa.net = "ok" /\ ~(pe.opa.status \in 200..299)) =>
               /\ pe.response.status = 200
               /\ ~pe.response.body.allowed
               /\ pe.response.body.reason =
                      <<"OPA evaluation failed: ", pe.opa.status>>
        /\ (pe.opa.net = "ok" /\ pe.opa.status \in 200..299
            /\ IsSome(pe.opa.json) /\ OpaResult # Some(JsonBool(TRUE))) =>
               /\ pe.response.status = 200
               /\ ~pe.response.body.allowed
        /\ pe.response.status \in {200, 500}
        /\ pe.response.status = 500 =>
               pe.response.body.error = "policy_evaluation_error"

\* C25 case: the evaluator answered 2xx with a result that is not a boolean
C25_Witness ==
    /\ pe.op = "evaluate"
    /\ pe.opa.status = 200
    /\ IsSome(pe.opa.json)
    /\ OpaResult = Some(JsonString("true"))
    /\ ~pe.response.body.allowed

\* C26: for every v2 evaluate call that returns a response, trust_evaluation
\* is present if and only if the input agent carried a trust score, and when
\* present it has trust_score = the input composite, threshold =
\* applied_threshold (0.3 when the evaluator gives none), passed = (score >=
\* threshold) and action_taken = trust_action.
C26_TrustEvaluation ==
    (pe.op = "evaluate_v2" /\ pe.response.status = 200) =>
        LET te == pe.response.body.trust_evaluation
            doc == IF IsSome(pe.opa.json) /\ IsSome(OpaResult)
                   THEN Unwrap(OpaResult) ELSE JsonNull
            given == and_then(json_get(doc, "applied_threshold"), as_f64)
            threshold == IF IsSome(given) THEN Unwrap(given) ELSE 30
            score == Unwrap(pe.trust_score).composite_score
        IN  /\ IsSome(te) <=> IsSome(pe.trust_score)
            /\ IsSome(te) =>
                   /\ Unwrap(te).trust_score = Some(score)
                   /\ Unwrap(te).threshold = threshold
                   /\ Unwrap(te).passed = (score >= threshold)
                   /\ Unwrap(te).action_taken =
                          and_then(json_get(doc, "trust_action"), as_str)

\* the request came from an agent the registry reports valid and the policy
\* engine answered it with a denial
DeniedByPolicy ==
    /\ gw.reply.op = "intercept"
    /\ gw.idnet = "ok"
    /\ gw.idresp.status = 200
    /\ gw.polnet = "ok"
    /\ gw.reply.policy_calls = 1
    /\ ~gw.answer.allowed

\* C27: a request of an agent whose trust score is below its threshold with
\* action "block", denied by the policy engine, is answered 403 with reason
\* "Trust score below minimum threshold", is not forwarded, and once its
\* receipt is stored the receipt store has a trust_event of type
\* threshold_violation and traces.trust_violations = 1 for that trace.
C27_TrustThresholdBlock ==
    (DeniedByPolicy /\ rsResp.op = "store_receipt") =>
        LET trace_id == Unwrap(gw.reply.trace_id) IN
        /\ gw.reply.status = 403
        /\ Unwrap(gw.reply.body).reason =
               <<"Trust score below minimum threshold">>
        /\ gw.reply.upstream_calls = 0
        /\ \E i \in 1..Len(db.trust_events) :
               /\ db.trust_events[i].trace_id = trace_id
               /\ db.trust_events[i].event_type = "threshold_violation"
        /\ \E i \in 1..Len(db.traces) :
               /\ db.traces[i].trace_id = trace_id
               /\ db.traces[i].trust_violations = Some(1)

\* the rows of trace timeline.trace_id in the two tables
TimelineReceipts ==
    {i \in 1..Len(db.receipt_events) :
        db.receipt_events[i].trace_id = timeline.trace_id}
TimelineExternals ==
    {i \in 1..Len(external_events) :
        external_events[i].trace_id = timeline.trace_id}

\* the timeline has one entry for each row of its trace, nothing else, and
\* is in ascending timestamp order
TimelineComplete ==
    LET entries == timeline.entries
        n == Len(entries)
    IN  /\ n = Cardinality(TimelineReceipts) + Cardinality(TimelineExternals)
        /\ \A i \in TimelineReceipts :
               Cardinality({k \in 1..n :
                   /\ entries[k].event_id = db.receipt_events[i].receipt_id
                   /\ entries[k].timestamp = db.receipt_events[i].timestamp}) = 1
        /\ \A i \in TimelineExternals :
               Cardinality({k \in 1..n :
                   /\ entries[k].event_id = external_events[i].event_id
                   /\ entries[k].timestamp = external_events[i].timestamp}) = 1
        /\ \A k \in 1..(n - 1) :
               entries[k].timestamp <= entries[k + 1].timestamp

\* a get_timeline call has been answered in this step
TimelineAnswered ==
    /\ timeline'.calls # timeline.calls
    /\ timeline'.status = 200

\* C28: get_timeline(T) returns exactly one entry for every receipt event and
\* every external event stored with trace_id T and nothing else, ordered by
\* timestamp ascending.
C28_TimelineMerge == [][TimelineAnswered => TimelineComplete']_vars

\* C28 case: a timeline of a receipt event and an external event of the same
\* trace, the external event stored first and timestamped later, while the
\* tables hold a row of another trace
C28_Witness ==
    /\ timeline.op = "get_timeline"
    /\ Len(timeline.entries) = 2
    /\ \E i \in 1..Len(db.receipt_events) :
           /\ timeline.entries[1].event_id = db.receipt_events[i].receipt_id
           /\ timeline.entries[1].timestamp < timeline.entries[2].timestamp
    /\ \E i \in 1..Len(external_events) :
           timeline.entries[2].event_id = external_events[i].event_id
    /\ \E i \in 1..Len(external_events) :
           external_events[i].trace_id # timeline.trace_id

\* the entry is the entry of a receipt event / of an external event
IsReceiptEntry(entry) ==
    \E i \in 1..Len(db.receipt_events) :
        db.receipt_events[i].receipt_id = entry.event_id
IsExternalEntry(entry) ==
    \E i \in 1..Len(external_events) :
        external_events[i].event_id = entry.event_id

\* the outcome of every entry of the timeline follows the two checks of its
\* receipt; an external entry succeeds
TimelineOutcomes ==
    \A k \in 1..Len(timeline.entries) :
        LET entry == timeline.entries[k] IN
        /\ IsExternalEntry(entry) =>
               /\ entry.outcome.success
               /\ entry.outcome.reason = None
        /\ \A i \in 1..Len(db.receipt_events) :
               LET row == db.receipt_events[i] IN
               row.receipt_id = entry.event_id =>
                   /\ entry.outcome.success =
                          (row.identity_result.valid /\ row.policy_result.allowed)
                   /\ entry.outcome.reason =
                          IF ~row.policy_result.allowed
                          THEN Some("Policy denied")
                          ELSE IF ~row.identity_result.valid
                          THEN Some("Identity invalid")
                          ELSE None
                   /\ (entry.outcome.reason = None) <=> entry.outcome.success

\* C29: in get_timeline every receipt entry has outcome.success =
\* (identity_valid AND policy_allowed) and every external entry has success =
\* true; a receipt entry's reason is "Policy denied" when the policy check
\* failed, otherwise "Identity invalid" when the identity check failed, and is
\* absent only when success is true.
C29_TimelineOutcome == [][TimelineAnswered => TimelineOutcomes']_vars

\* C29 case: a timeline with the entry of a receipt whose policy check passed
\* and whose identity check failed, and an external entry
C29_Witness ==
    /\ timeline.op = "get_timeline"
    /\ \E k \in 1..Len(timeline.entries) :
           /\ IsReceiptEntry(timeline.entries[k])
           /\ timeline.entries[k].outcome.reason = Some("Identity invalid")
    /\ \E k \in 1..Len(timeline.entries) :
           IsExternalEntry(timeline.entries[k])

\* C30: create_trust_score gives every dimension that the request does not
\* supply the value 0.5: with no initial_dimensions all five dimensions are
\* 0.5 and the composite is 0.5, and with a partial initial_dimensions the
\* missing ones are 0.5.
C30_DefaultDimensions ==
    (trustResp.op = "create_trust_score" /\ trustResp.status = 200) =>
        LET score == Unwrap(trust_scores)
            dims == score.dimension_scores
        IN  /\ \A d \in Dimensions \ {"behavior"} : dims[d] = 50
            /\ dims.behavior \in {50, 90}
            /\ dims.behavior = 50 =>
                   score.composite_score =
                       calculate_composite([d \in Dimensions |-> 50])

\* the row of the tenant the last registry response is about, and the
\* external ids its hierarchy_path names before the tenant itself
AnsweredTenant ==
    tenants[CHOOSE i \in active_tenants(tenants) :
                tenants[i].tenant_id = regResp.id]
AnsweredPathFront ==
    LET path == Unwrap(AnsweredTenant.hierarchy_path)
    IN  SubSeq(path, 1, Len(path) - 1)
IsActiveTenantId(tenant_id) ==
    \E i \in active_tenants(tenants) : tenants[i].tenant_id = tenant_id
HierarchyAnswered ==
    regResp.op = "get_tenant_hierarchy" /\ regResp.status = 200
AnsweredAncestorIds ==
    LET a == Unwrap(regResp.body).ancestors
    IN  [k \in 1..Len(a) |-> a[k].tenant_id]

\* the children of the answer are the active tenants whose parent is the
\* tenant, in the order of their external ids
ChildrenAsStated ==
    LET c == Unwrap(regResp.body).children
        T == Unwrap(regResp.body).tenant.id
    IN  /\ {c[k].id : k \in 1..Len(c)} =
               {i \in active_tenants(tenants) :
                   tenants[i].parent_tenant_id = Some(T)}
        /\ \A k \in 1..(Len(c) - 1) :
               tenant_id_rank(c[k].tenant_id) < tenant_id_rank(c[k + 1].tenant_id)

\* get_tenant, get_tenant_hierarchy and update_tenant answer 404 for an
\* external id that names no active tenant, and no deactivated tenant is in
\* what they return
DeactivatedNeverReturned ==
    /\ (regResp.op \in {"get_tenant", "get_tenant_hierarchy", "update_tenant"}
        /\ ~IsActiveTenantId(regResp.id)) =>
           (regResp.status = 404 /\ regResp.body = None)
    /\ HierarchyAnswered =>
           LET body == Unwrap(regResp.body)
           IN  /\ \A k \in 1..Len(body.ancestors) :
                      body.ancestors[k].id \in active_tenants(tenants)
               /\ \A k \in 1..Len(body.children) :
                      body.children[k].id \in active_tenants(tenants)

\* C31 as stated: for an active tenant T, get_tenant_hierarchy(T) returns as
\* ancestors exactly the tenants named in T.hierarchy_path except T itself,
\* root first, and as children exactly the non-deactivated tenants whose
\* parent is T, ordered by external_id; a deactivated tenant is never returned
\* by get_tenant, get_tenant_hierarchy or update_tenant (404).
C31_Original ==
    /\ HierarchyAnswered =>
           /\ AnsweredAncestorIds = AnsweredPathFront
           /\ ChildrenAsStated
    /\ DeactivatedNeverReturned

\* C31, amended: the ancestors returned are exactly the non-deactivated
\* tenants named in T.hierarchy_path except T itself, root first; the
\* children are exactly the non-deactivated tenants whose parent is T, ordered
\* by external_id; get_tenant, get_tenant_hierarchy and update_tenant answer
\* 404 for a deactivated tenant.
C31_HierarchyOfActive ==
    /\ HierarchyAnswered =>
           /\ AnsweredAncestorIds =
                  SelectSeq(AnsweredPathFront, IsActiveTenantId)
           /\ ChildrenAsStated
    /\ DeactivatedNeverReturned

\* C31 case: the hierarchy of a tenant with two children, the child with the
\* later external id created first
C31_Witness ==
    /\ HierarchyAnswered
    /\ Len(Unwrap(regResp.body).children) = 2
    /\ Unwrap(regResp.body).children[1].id > Unwrap(regResp.body).children[2].id

\* C31 case: the hierarchy of a tenant with two ancestors
C31_WitnessAncestors ==
    /\ HierarchyAnswered
    /\ Len(Unwrap(regResp.body).ancestors) = 2

\* the traces for which a receipt carrying this correlation id is stored
CorrelationCarriers(d, correlation_id) ==
    {d.receipt_events[i].trace_id : i \in
        {j \in 1..Len(d.receipt_events) :
            d.receipt_events[j].correlation_id = Some(correlation_id)}}

\* this step is a lookup_by_correlation call that gave a new answer
LookupAnswered ==
    /\ db' = db
    /\ lookup' # lookup
    /\ lookup'.op = "lookup_by_correlation"

\* C32: lookup_by_correlation(C) answers with the full detail of a trace for
\* which a receipt carrying C is stored, whether that receipt was the first or
\* a later one of the trace, and with 404 when no stored receipt carries C
C32_LookupResolves ==
    [][LookupAnswered =>
        LET carriers == CorrelationCarriers(db, lookup'.correlation_id)
        IN  IF carriers = {}
            THEN lookup'.status = 404
            ELSE /\ lookup'.status = 200
                 /\ lookup'.detail.trace.trace_id \in carriers
                 /\ Len(lookup'.detail.timeline) =
                        Len(where_trace_id(db.receipt_events,
                                           lookup'.detail.trace.trace_id))]_vars

\* C33: every stored trust score has each of its five dimensions in [0,1]
\* and its composite in [0,1] (dimensions in hundredths)
C33_ScoresInRange ==
    IsSome(trust_scores) =>
        /\ \A d \in Dimensions :
               /\ 0 <= Unwrap(trust_scores).dimension_scores[d]
               /\ Unwrap(trust_scores).dimension_scores[d] <= 100
        /\ FracLeq(Frac(0, 1), Unwrap(trust_scores).composite_score)
        /\ FracLeq(Unwrap(trust_scores).composite_score, Frac(1, 1))

C35_ReceiptIdentityValid ==
    \A i \in 1..Len(gw.reply.receipts) :
        gw.reply.receipts[i].identity_result.valid <=> IdentityPassed

\* C36: verify_chain(R, P) is true exactly when R.previous_receipt_hash is
\* P.receipt_hash and R.receipt_hash is the hash recomputed from R's fields;
\* it is false for an R without previous hash checked against a predecessor P
C36_VerifyChain ==
    \A i, j \in 1..Len(db.receipt_events) :
        LET R == db.receipt_events[i]
            P == db.receipt_events[j]
        IN  i # j =>
            (verify_chain(R, P) <=>
                /\ R.previous_receipt_hash = Some(P.receipt_hash)
                /\ R.receipt_hash = calculate_hash(R))

\* C37: of two register_developer calls with the same external id that run
\* at the same time, exactly one succeeds and the other is answered 409, and
\* at most one row with that external id is created
C37_ConcurrentRegister ==
    /\ \A d \in DevArgs : Cardinality(find_developer(developers, d)) <= 1
    /\ (/\ \A p \in Procs : reg[p].pc = "done"
        /\ reg[1].developer_id = reg[2].developer_id)
           => \E p, q \in Procs :
                  /\ p # q
                  /\ reg[p].status = 200
                  /\ reg[q].status = 409

\* C38: no update_dimension call is lost to a concurrent one: every change of
\* the live row applies the call's delta to the dimensions the row holds at
\* that moment, so that the final row is the two deltas applied one after the
\* other, and the history row of the call holds that pre-change state
C38_NoLostUpdate ==
    [][(IsSome(trust_scores) /\ trust_scores' # trust_scores) =>
        \E p \in Procs :
            /\ upd[p].pc = "update"
            /\ upd'[p].pc = "idle"
            /\ Some(Unwrap(trust_scores').dimension_scores) =
                   apply_delta(Unwrap(trust_scores).dimension_scores,
                               upd[p].payload)
            /\ Unwrap(trust_scores').composite_score =
                   calculate_composite(Unwrap(trust_scores').dimension_scores)
            /\ \E i \in 1..Len(trust_score_history) :
                   /\ trust_score_history[i].recorded_at = upd[p].now
                   /\ trust_score_history[i].dimension_scores =
                          Unwrap(trust_scores).dimension_scores]_vars

\* C39: a store_receipt / store_receipt_v2 response with stored = true means
\* that the receipt's row, with that receipt_id and receipt_hash, is in the
\* relational store, with or without a configured database
C39_StoredMeansRow ==
    (rsResp.op \in {"store_receipt", "store_receipt_v2"} /\ rsResp.stored) =>
        \E i \in 1..Len(db.receipt_events) :
            /\ db.receipt_events[i].receipt_id = rsResp.receipt_id
            /\ db.receipt_events[i].receipt_hash = rsResp.receipt_hash

\* C40: every receipt that was archived remains in the archive: no archive
\* write goes to the object key of an earlier receipt, so none overwrites it
C40_ArchiveKeepsReceipts ==
    [][\A j \in 1..Len(s3) :
           \E k \in 1..Len(s3') : s3'[k].body = s3[j].body]_vars

====
